---- MODULE Spec2Model ----
(***************************************************************************)
(* A model of the methodray type-inference core: the graph store           *)
(* (Vertex / Source arenas and forward propagation), the ChangeSet, the    *)
(* method registry, the constraint boxes with the run queue, and the       *)
(* scope manager's instance-variable tables.                               *)
(***************************************************************************)
EXTENDS Integers, Sequences, FiniteSets, TLC

VARIABLES
    vertices,        \* GlobalEnv.vertices : VertexId -> Vertex
    sources,         \* GlobalEnv.sources  : VertexId -> Source.ty
    next_vertex_id,  \* GlobalEnv.next_vertex_id
    boxes,           \* GlobalEnv.boxes    : BoxId -> box
    next_box_id,     \* GlobalEnv.next_box_id
    run_queue,       \* GlobalEnv.run_queue (VecDeque<BoxId>)
    run_queue_set,   \* GlobalEnv.run_queue_set
    methods,         \* GlobalEnv.methods  : (Type, name) -> MethodInfo
    type_errors,     \* GlobalEnv.type_errors (Vec<TypeError>)
    changes,         \* the ChangeSet a producer buffers its edges in
    pc,              \* "install" | "drain"
    source_edges,    \* history: the (Source, dst) pairs handed to add_edge
    scopes,          \* ScopeManager.scopes : ScopeId -> Scope
    scope_next_id,   \* ScopeManager.next_id
    current_scope,   \* ScopeManager.current_scope
    ivar_next_vtx,   \* the id of the next value vertex an ivar write stores
    ivar_writer,     \* history: value vertex -> frame and position of its write
    last_read,       \* history: the read just made and its result, None otherwise
    program,         \* the file under analysis: its source text and its statements
    stmt_index,      \* the number of top-level statements the installer has walked
    lenv,            \* LocalEnv.locals : name -> VertexId
    param_log,       \* history: the method parameters installed, in order
    bundled_cache,   \* the rbs_cache.bin shipped beside the binary: None | Some(bytes)
    user_cache,      \* ~/.cache/methodray/rbs_cache.bin: None | Some(bytes)
    procs,           \* the processes that populate a registry: id -> state
    conv,            \* a type, a reordering of it, and what a conversion made of them
    popped,          \* the iteration of run_all under way: None | Some(box_id, temp_box, changes)
    run_count        \* history: box id -> the number of its runs in the drain under way

graph_vars == <<vertices, sources, next_vertex_id, boxes, next_box_id, run_queue,
                run_queue_set, methods, type_errors, changes, pc, source_edges>>
scope_vars == <<scopes, scope_next_id, current_scope, ivar_next_vtx, ivar_writer,
                last_read>>
walk_vars == <<program, stmt_index, lenv, param_log>>
cache_vars == <<bundled_cache, user_cache, procs>>
aux_vars == <<walk_vars, cache_vars, conv, popped, run_count>>
vars == <<graph_vars, scope_vars, aux_vars>>

-----------------------------------------------------------------------------
(* Bounds of the model *)

MaxSize == 5
MaxPending == 2
MaxScopes == 4
MaxIvarWrites == 2
MaxSelf == 1
MaxProcs == 2
MaxDepth == 1

(* Program constants *)

MAX_RESCHEDULE_COUNT == 3

-----------------------------------------------------------------------------
(* Types (types.rs) *)

None == [tag |-> "None"]
Some(x) == [tag |-> "Some", value |-> x]

Instance(n) == [tag |-> "Instance", name |-> n, type_args |-> <<>>]
Generic(n, args) == [tag |-> "Generic", name |-> n, type_args |-> args]
Nil == [tag |-> "Nil", name |-> "", type_args |-> <<>>]
Union(ts) == [tag |-> "Union", name |-> "", type_args |-> ts]
Bot == [tag |-> "Bot", name |-> "", type_args |-> <<>>]

String == Instance("String")
Integer == Instance("Integer")
Array == Instance("Array")
Hash == Instance("Hash")
array_of(element_type) == Generic("Array", <<element_type>>)

type_args(ty) == IF ty.tag = "Generic" THEN Some(ty.type_args) ELSE None
base_class_name(ty) ==
    IF ty.tag \in {"Instance", "Generic", "Singleton"} THEN Some(ty.name) ELSE None

(* The iteration order of a HashMap / HashSet is unspecified: every loop over *)
(* one takes its order from ord, "asc" or "desc" over a fixed ranking.        *)
Orders == {"asc", "desc"}
TypeRanking ==
    <<String, Integer, Array, array_of(Integer), Nil, Bot,
      array_of(Union(<<String, Integer>>)), array_of(Union(<<Integer, String>>)),
      array_of(Nil), Instance("A"), Instance("M"), Instance("M::A"),
      array_of(Union(<<Integer, Nil>>)), array_of(Union(<<Nil, Integer>>)),
      Hash, array_of(String), array_of(array_of(Integer))>>
IdLimit == MaxSize * (Len(TypeRanking) + 1)

Reverse(s) == [i \in 1..Len(s) |-> s[Len(s) + 1 - i]]
Range(s) == {s[i] : i \in 1..Len(s)}
Iterate(S, ranking, ord) ==
    LET r == IF ord = "asc" THEN ranking ELSE Reverse(ranking)
    IN SelectSeq(r, LAMBDA x : x \in S)

(* the ids of a set in ascending order, or in descending order *)
RECURSIVE Ascending(_)
Ascending(S) ==
    IF S = {} THEN <<>>
    ELSE LET least == CHOOSE x \in S : \A y \in S : x <= y
         IN <<least>> \o Ascending(S \ {least})
IterateIds(S, ord) == IF ord = "asc" THEN Ascending(S) ELSE Reverse(Ascending(S))

-----------------------------------------------------------------------------
(* Graph store (graph/vertex.rs, env/global_env.rs) *)

Vertex_new == [types |-> <<>>, next_vtxs |-> {}]

(* Vertex::add_next that drops a successor already recorded *)
add_next_toggle(vtx, next_id) ==
    [vtx EXCEPT !.next_vtxs = IF next_id \in @ THEN @ \ {next_id} ELSE @ \cup {next_id}]

(* Vertex::add_next *)
add_next(vtx, next_id) == [vtx EXCEPT !.next_vtxs = @ \cup {next_id}]

(* the types on_type_added counts as new, were a type new once for each *)
(* vertex it arrives from                                               *)
new_added_types_per_source(vtx, src_id, added_types) ==
    SelectSeq(added_types,
              LAMBDA ty : ty \notin DOMAIN vtx.types \/ src_id \notin vtx.types[ty])

(* the loop of Vertex::on_type_added over added_types: a type that is not *)
(* yet a key of the type map is pushed onto new_added_types               *)
new_added_types(vtx, src_id, added_types) ==
    SelectSeq(added_types, LAMBDA ty : ty \notin DOMAIN vtx.types)

(* Vertex::on_type_added that records the types and propagates nothing *)
on_type_added_no_props(vtx, src_id, added_types, ord) ==
    LET added == Range(added_types)
    IN [vtx |-> [vtx EXCEPT !.types =
                    [ty \in (DOMAIN vtx.types) \cup added |->
                        IF ty \in DOMAIN vtx.types
                        THEN (IF ty \in added THEN vtx.types[ty] \cup {src_id}
                                              ELSE vtx.types[ty])
                        ELSE {src_id}]],
        props |-> <<>>]

(* Vertex::on_type_added: the updated vertex and the list of propagations *)
on_type_added(vtx, src_id, added_types, ord) ==
    LET added == Range(added_types)
        new_types == new_added_types(vtx, src_id, added_types)
        nexts == IterateIds(vtx.next_vtxs, ord)
    IN [vtx |-> [vtx EXCEPT !.types =
                    [ty \in (DOMAIN vtx.types) \cup added |->
                        IF ty \in DOMAIN vtx.types
                        THEN (IF ty \in added THEN vtx.types[ty] \cup {src_id}
                                              ELSE vtx.types[ty])
                        ELSE {src_id}]],
        props |-> IF new_types = <<>> THEN <<>>
                  ELSE [i \in 1..Len(nexts) |-> <<nexts[i], new_types>>]]

(* A graph g is the pair of arenas [vertices, sources]. *)
RECURSIVE propagate_each(_, _, _, _)

(* GlobalEnv::propagate_types with a destination Source overwritten *)
propagate_types_into_source(g, src_id, dst_id, types, ord) ==
    IF dst_id \in DOMAIN g.vertices
    THEN LET r == on_type_added(g.vertices[dst_id], src_id, types, ord)
         IN propagate_each([g EXCEPT !.vertices[dst_id] = r.vtx], dst_id, r.props, ord)
    ELSE IF dst_id \in DOMAIN g.sources
         THEN [g EXCEPT !.sources[dst_id] = types[1]]
         ELSE g

(* GlobalEnv::propagate_types *)
propagate_types(g, src_id, dst_id, types, ord) ==
    IF dst_id \in DOMAIN g.vertices
    THEN LET r == on_type_added(g.vertices[dst_id], src_id, types, ord)
         IN propagate_each([g EXCEPT !.vertices[dst_id] = r.vtx], dst_id, r.props, ord)
    ELSE g

(* the loop `for (next_id, next_types) in next_propagations` *)
propagate_each(g, from_id, props, ord) ==
    IF props = <<>> THEN g
    ELSE propagate_each(
            propagate_types(g, from_id, Head(props)[1], Head(props)[2], ord),
            from_id, Tail(props), ord)

(* the types a vertex id holds: the keys of a Vertex, the one type of a Source *)
types_of(g, id, ord) ==
    IF id \in DOMAIN g.vertices
    THEN Some(Iterate(DOMAIN g.vertices[id].types, TypeRanking, ord))
    ELSE IF id \in DOMAIN g.sources THEN Some(<<g.sources[id]>>)
    ELSE None

(* GlobalEnv::propagate_from *)
propagate_from(g, src, dst, ord) ==
    LET types == types_of(g, src, ord)
    IN IF types = None THEN g
       ELSE IF types.value # <<>> THEN propagate_types(g, src, dst, types.value, ord)
       ELSE g

(* add_edge that also hands the types of dst back to src *)
add_edge_backflow(g, src, dst, ord) ==
    LET g1 == IF src \in DOMAIN g.vertices
              THEN [g EXCEPT !.vertices[src] = add_next(@, dst)]
              ELSE g
    IN propagate_from(propagate_from(g1, src, dst, ord), dst, src, ord)

(* GlobalEnv::add_edge *)
add_edge(g, src, dst, ord) ==
    LET g1 == IF src \in DOMAIN g.vertices
              THEN [g EXCEPT !.vertices[src] = add_next(@, dst)]
              ELSE g
    IN propagate_from(g1, src, dst, ord)

(* The same propagation with its calls of on_type_added written down: t is *)
(* the pair of the graph g and the list of visits made so far; a visit     *)
(* names the vertex, the types the call made new keys of its type map and  *)
(* the number of propagations the call returned.                           *)
RECURSIVE propagate_each_visits(_, _, _, _)

propagate_types_visits(t, src_id, dst_id, types, ord) ==
    IF dst_id \in DOMAIN t.g.vertices
    THEN LET before == t.g.vertices[dst_id]
             r == on_type_added(before, src_id, types, ord)
             visit == [vtx |-> dst_id,
                       added |-> (DOMAIN r.vtx.types) \ (DOMAIN before.types),
                       props |-> Len(r.props)]
         IN propagate_each_visits(
                [g |-> [t.g EXCEPT !.vertices[dst_id] = r.vtx],
                 visits |-> Append(t.visits, visit)],
                dst_id, r.props, ord)
    ELSE t

propagate_each_visits(t, from_id, props, ord) ==
    IF props = <<>> THEN t
    ELSE propagate_each_visits(
            propagate_types_visits(t, from_id, Head(props)[1], Head(props)[2], ord),
            from_id, Tail(props), ord)

add_edge_visits(g, src, dst, ord) ==
    LET g1 == IF src \in DOMAIN g.vertices
              THEN [g EXCEPT !.vertices[src] = add_next(@, dst)]
              ELSE g
        types == types_of(g1, src, ord)
        t == [g |-> g1, visits |-> <<>>]
    IN IF types = None \/ types.value = <<>> THEN t
       ELSE propagate_types_visits(t, src, dst, types.value, ord)

-----------------------------------------------------------------------------
(* ChangeSet (graph/change_set.rs) *)

ChangeSet_new == [new_edges |-> <<>>, edges |-> <<>>, reschedule_boxes |-> <<>>]

ChangeSet_add_edge(cs, src, dst) == [cs EXCEPT !.new_edges = Append(@, <<src, dst>>)]

reschedule(cs, box_id) == [cs EXCEPT !.reschedule_boxes = Append(@, box_id)]

key_le(a, b) == a[1] < b[1] \/ (a[1] = b[1] /\ a[2] <= b[2])

RECURSIVE insert_sorted(_, _)
insert_sorted(s, e) ==
    IF s = <<>> THEN <<e>>
    ELSE IF key_le(Head(s), e) THEN <<Head(s)>> \o insert_sorted(Tail(s), e)
    ELSE <<e>> \o s

(* Vec::sort_by_key on (src.0, dst.0): a stable sort *)
RECURSIVE sort_by_key(_)
sort_by_key(s) ==
    IF s = <<>> THEN <<>>
    ELSE insert_sorted(sort_by_key(SubSeq(s, 1, Len(s) - 1)), s[Len(s)])

RECURSIVE dedup(_)

(* Vec::dedup that keeps the repeats *)
dedup_kept(s) == s

(* Vec::dedup: consecutive repeats are dropped *)
dedup(s) ==
    IF Len(s) <= 1 THEN s
    ELSE IF s[1] = s[2] THEN dedup(Tail(s))
    ELSE <<s[1]>> \o dedup(Tail(s))

Add(e) == [kind |-> "Add", src |-> e[1], dst |-> e[2]]
Remove(e) == [kind |-> "Remove", src |-> e[1], dst |-> e[2]]
MapSeq(s, Op(_)) == [i \in 1..Len(s) |-> Op(s[i])]

(* ChangeSet::reinstall: the committed change-set and the list of updates *)
reinstall(cs) ==
    LET new_edges == dedup(sort_by_key(cs.new_edges))
        adds == SelectSeq(new_edges, LAMBDA e : e \notin Range(cs.edges))
        removes == SelectSeq(cs.edges, LAMBDA e : e \notin Range(new_edges))
    IN [cs |-> [cs EXCEPT !.edges = new_edges, !.new_edges = <<>>],
        updates |-> MapSeq(adds, Add) \o MapSeq(removes, Remove)]

RECURSIVE apply_updates(_, _, _)
apply_updates(g, updates, ord) ==
    IF updates = <<>> THEN g
    ELSE LET update == Head(updates)
         IN apply_updates(
                IF update.kind = "Add" THEN add_edge(g, update.src, update.dst, ord)
                ELSE g,
                Tail(updates), ord)

(* GlobalEnv::apply_changes with Remove updates retracting the destination *)
RECURSIVE apply_updates_retracting(_, _, _)
apply_updates_retracting(g, updates, ord) ==
    IF updates = <<>> THEN g
    ELSE LET update == Head(updates)
         IN apply_updates_retracting(
                IF update.kind = "Add" THEN add_edge(g, update.src, update.dst, ord)
                ELSE IF update.dst \in DOMAIN g.vertices
                     THEN [g EXCEPT !.vertices[update.dst].types = <<>>]
                     ELSE g,
                Tail(updates), ord)

apply_changes_retracting(g, cs, ord) ==
    apply_updates_retracting(g, reinstall(cs).updates, ord)

(* GlobalEnv::apply_changes: the reschedule list of the change-set is not read *)
apply_changes(g, cs, ord) == apply_updates(g, reinstall(cs).updates, ord)

-----------------------------------------------------------------------------
(* Printed forms and the registry (rbs/converter.rs, env/method_registry.rs) *)

(* A printed form is the sequence of its parts between " | " separators. *)
trim_start_matches(part) ==
    CASE part = "::String" -> "String"
      [] part = "::Array" -> "Array"
      [] part = "::Integer" -> "Integer"
      [] OTHER -> part

(* RbsTypeConverter::parse_single *)
parse_single(rbs_type) ==
    LET type_name == trim_start_matches(rbs_type)
    IN CASE type_name = "bool" -> Union(<<Instance("TrueClass"), Instance("FalseClass")>>)
         [] type_name \in {"void", "nil"} -> Nil
         [] type_name \in {"untyped", "top"} -> Bot
         [] OTHER -> Instance(type_name)

(* RbsTypeConverter::parse *)
parse(rbs_type) ==
    IF Len(rbs_type) > 1 THEN Union(MapSeq(rbs_type, parse_single))
    ELSE parse_single(rbs_type[1])

MethodInfo(return_type, block_param_types) ==
    [return_type |-> return_type, block_param_types |-> block_param_types]

(* MethodRegistry::register_with_block *)
register_with_block(ms, recv_ty, method_name, ret_ty, block_param_types) ==
    [k \in (DOMAIN ms) \cup {<<recv_ty, method_name>>} |->
        IF k = <<recv_ty, method_name>> THEN MethodInfo(ret_ty, block_param_types)
        ELSE ms[k]]

(* register_rbs_methods: the records of the signature cache are converted *)
(* (RbsCache::to_method_infos) and registered one by one                  *)
RECURSIVE register_rbs_methods(_, _)
register_rbs_methods(ms, records) ==
    IF records = <<>> THEN ms
    ELSE LET m == Head(records)
             block_param_types ==
                 IF m.block_param_types = None THEN None
                 ELSE Some(MapSeq(m.block_param_types.value, parse))
         IN register_rbs_methods(
                register_with_block(ms, Instance(m.receiver_class), m.method_name,
                                    parse(m.return_type_str), block_param_types),
                Tail(records))

(* MethodRegistry::resolve: the exact receiver, then the base of a Generic *)
MethodRegistry_resolve(ms, recv_ty, method_name) ==
    IF <<recv_ty, method_name>> \in DOMAIN ms THEN Some(ms[<<recv_ty, method_name>>])
    ELSE IF recv_ty.tag = "Generic"
         THEN (IF <<Instance(recv_ty.name), method_name>> \in DOMAIN ms
               THEN Some(ms[<<Instance(recv_ty.name), method_name>>])
               ELSE None)
         ELSE None

(* GlobalEnv::resolve_method: the exact key only *)
resolve_method(ms, recv_ty, method_name) ==
    IF <<recv_ty, method_name>> \in DOMAIN ms THEN Some(ms[<<recv_ty, method_name>>])
    ELSE None

-----------------------------------------------------------------------------
(* GlobalEnv as a value: [vertices, sources, next_vertex_id, type_errors, methods] *)

Extend(f, k, v) == [x \in (DOMAIN f) \cup {k} |-> IF x = k THEN v ELSE f[x]]

(* GlobalEnv::new_vertex *)
new_vertex(env) ==
    [env EXCEPT !.vertices = Extend(env.vertices, env.next_vertex_id, Vertex_new),
                !.next_vertex_id = @ + 1]

(* GlobalEnv::new_source that leaves the id counter as it is *)
new_source_reusing(env, ty) ==
    [env EXCEPT !.sources = Extend(env.sources, env.next_vertex_id, ty)]

(* GlobalEnv::new_source *)
new_source(env, ty) ==
    [env EXCEPT !.sources = Extend(env.sources, env.next_vertex_id, ty),
                !.next_vertex_id = @ + 1]

TypeError(receiver_type, method_name, location) ==
    [receiver_type |-> receiver_type, method_name |-> method_name,
     location |-> location]

(* record_type_error that pushes the diagnostic twice *)
record_type_error_twice(env, receiver_type, method_name, location) ==
    [env EXCEPT !.type_errors =
                    Append(Append(@, TypeError(receiver_type, method_name, location)),
                           TypeError(receiver_type, method_name, location))]

(* GlobalEnv::record_type_error *)
record_type_error(env, receiver_type, method_name, location) ==
    [env EXCEPT !.type_errors =
                    Append(@, TypeError(receiver_type, method_name, location))]

-----------------------------------------------------------------------------
(* Constraint boxes (graph/box.rs) *)

MethodCallBox_new(id, recv, method_name, ret, location) ==
    [kind |-> "MethodCall", id |-> id, recv |-> recv, method_name |-> method_name,
     ret |-> ret, location |-> location, reschedule_count |-> 0,
     block_param_vtxs |-> <<>>]

BlockParameterTypeBox_new(id, recv_vtx, method_name, block_param_vtxs) ==
    [kind |-> "BlockParam", id |-> id, recv |-> recv_vtx, method_name |-> method_name,
     ret |-> -1, location |-> None, reschedule_count |-> 0,
     block_param_vtxs |-> block_param_vtxs]

(* the loop `for recv_ty in recv_types` of MethodCallBox::run *)
RECURSIVE method_call_each(_, _, _)
RECURSIVE method_call_each_echo(_, _, _)

(* the loop with a Source that holds the receiver type on a hit *)
method_call_each_echo(acc, bx, recv_types) ==
    IF recv_types = <<>> THEN acc
    ELSE LET recv_ty == Head(recv_types)
             method_info == resolve_method(acc.env.methods, recv_ty, bx.method_name)
             ret_src_id == acc.env.next_vertex_id
         IN method_call_each_echo(
                IF method_info # None
                THEN [env |-> new_source(acc.env, recv_ty),
                      changes |-> ChangeSet_add_edge(acc.changes, ret_src_id, bx.ret)]
                ELSE [env |-> record_type_error(acc.env, recv_ty, bx.method_name,
                                                        bx.location),
                      changes |-> acc.changes],
                bx, Tail(recv_types))

method_call_each(acc, bx, recv_types) ==
    IF recv_types = <<>> THEN acc
    ELSE LET recv_ty == Head(recv_types)
             method_info == resolve_method(acc.env.methods, recv_ty, bx.method_name)
             ret_src_id == acc.env.next_vertex_id
         IN method_call_each(
                IF method_info # None
                THEN [env |-> new_source(acc.env, method_info.value.return_type),
                      changes |-> ChangeSet_add_edge(acc.changes, ret_src_id, bx.ret)]
                ELSE [env |-> record_type_error(acc.env, recv_ty, bx.method_name,
                                                        bx.location),
                      changes |-> acc.changes],
                bx, Tail(recv_types))

(* MethodCallBox::run that asks for one reschedule more *)
MethodCallBox_run_once_more(env, bx, changeset, ord) ==
    LET recv_types == types_of(env, bx.recv, ord)
    IN IF recv_types = None THEN [env |-> env, bx |-> bx, changes |-> changeset]
       ELSE IF recv_types.value = <<>>
       THEN (IF bx.reschedule_count <= MAX_RESCHEDULE_COUNT
             THEN [env |-> env,
                   bx |-> [bx EXCEPT !.reschedule_count = @ + 1],
                   changes |-> reschedule(changeset, bx.id)]
             ELSE [env |-> env, bx |-> bx, changes |-> changeset])
       ELSE LET acc == method_call_each([env |-> env, changes |-> changeset],
                                        bx, recv_types.value)
            IN [env |-> acc.env, bx |-> bx, changes |-> acc.changes]

(* MethodCallBox::run: the environment, the box and the change-set after the run *)
MethodCallBox_run(env, bx, changeset, ord) ==
    LET recv_types == types_of(env, bx.recv, ord)
    IN IF recv_types = None THEN [env |-> env, bx |-> bx, changes |-> changeset]
       ELSE IF recv_types.value = <<>>
       THEN (IF bx.reschedule_count < MAX_RESCHEDULE_COUNT
             THEN [env |-> env,
                   bx |-> [bx EXCEPT !.reschedule_count = @ + 1],
                   changes |-> reschedule(changeset, bx.id)]
             ELSE [env |-> env, bx |-> bx, changes |-> changeset])
       ELSE LET acc == method_call_each([env |-> env, changes |-> changeset],
                                        bx, recv_types.value)
            IN [env |-> acc.env, bx |-> bx, changes |-> acc.changes]

(* BlockParameterTypeBox::is_type_variable_name *)
is_type_variable_name(name) ==
    name \in {"Elem", "K", "V", "T", "U", "A", "B", "Element", "Key", "Value", "Out", "In"}

(* Vec::get with a 0-based index *)
get(s, index) == IF index + 1 \in 1..Len(s) THEN Some(s[index + 1]) ELSE None

(* BlockParameterTypeBox::resolve_type_variable *)
resolve_type_variable(ty, recv_ty) ==
    IF ~(ty.tag = "Instance" /\ is_type_variable_name(ty.name)) THEN None
    ELSE IF type_args(recv_ty) = None THEN None
    ELSE IF base_class_name(recv_ty) = None THEN None
    ELSE LET type_var_name == ty.name
             class_name == base_class_name(recv_ty).value
             index ==
                 CASE class_name = "Array" /\ type_var_name \in {"Elem", "T", "Element"} -> 0
                   [] class_name = "Hash" /\ type_var_name \in {"K", "Key"} -> 0
                   [] class_name = "Hash" /\ type_var_name \in {"V", "Value"} -> 1
                   [] class_name # "Array"
                      /\ type_var_name \in {"Elem", "T", "Element"} -> 0
                   [] OTHER -> -1
         IN IF index = -1 THEN None ELSE get(type_args(recv_ty).value, index)

(* the loop over param_types.iter().enumerate() *)
RECURSIVE block_param_each(_, _, _, _, _)
block_param_each(acc, bx, recv_ty, param_types, i) ==
    IF i >= Len(param_types) THEN acc
    ELSE LET param_type == param_types[i + 1]
             resolved == resolve_type_variable(param_type, recv_ty)
             skip == resolved = None /\ param_type.tag = "Instance"
                     /\ is_type_variable_name(param_type.name)
             resolved_type == IF resolved # None THEN resolved.value ELSE param_type
             src_id == acc.env.next_vertex_id
         IN block_param_each(
                IF i < Len(bx.block_param_vtxs) /\ ~skip
                THEN [env |-> new_source(acc.env, resolved_type),
                      changes |-> ChangeSet_add_edge(acc.changes, src_id,
                                                     bx.block_param_vtxs[i + 1])]
                ELSE acc,
                bx, recv_ty, param_types, i + 1)

(* the loop `for recv_ty in recv_types` of BlockParameterTypeBox::run *)
RECURSIVE block_recv_each(_, _, _)
block_recv_each(acc, bx, recv_types) ==
    IF recv_types = <<>> THEN acc
    ELSE LET recv_ty == Head(recv_types)
             info == resolve_method(acc.env.methods, recv_ty, bx.method_name)
             block_param_types == IF info = None THEN None
                                  ELSE info.value.block_param_types
         IN block_recv_each(
                IF block_param_types # None
                THEN block_param_each(acc, bx, recv_ty, block_param_types.value, 0)
                ELSE acc,
                bx, Tail(recv_types))

(* BlockParameterTypeBox::run *)
BlockParameterTypeBox_run(env, bx, changeset, ord) ==
    LET recv_types == types_of(env, bx.recv, ord)
    IN IF recv_types = None THEN [env |-> env, bx |-> bx, changes |-> changeset]
       ELSE LET acc == block_recv_each([env |-> env, changes |-> changeset],
                                       bx, recv_types.value)
            IN [env |-> acc.env, bx |-> bx, changes |-> acc.changes]

(* BoxTrait::run, dispatched on the kind of box *)
run(env, bx, changeset, ord) ==
    IF bx.kind = "MethodCall" THEN MethodCallBox_run(env, bx, changeset, ord)
    ELSE BlockParameterTypeBox_run(env, bx, changeset, ord)

-----------------------------------------------------------------------------
(* The run queue (env/global_env.rs) *)

(* GlobalEnv::add_run without the look-up in the companion set *)
add_run_unchecked(q, box_id) ==
    [run_queue |-> Append(q.run_queue, box_id),
     run_queue_set |-> q.run_queue_set \cup {box_id}]

(* GlobalEnv::add_run: the queue and its companion set *)
add_run(q, box_id) ==
    IF box_id \notin q.run_queue_set
    THEN [run_queue |-> Append(q.run_queue, box_id),
          run_queue_set |-> q.run_queue_set \cup {box_id}]
    ELSE q

(* VecDeque::pop_front that leaves the front element in the queue *)
pop_front_peek(queue) == queue

(* VecDeque::pop_front: the rest of the queue *)
pop_front(queue) == Tail(queue)

-----------------------------------------------------------------------------
(* Inputs *)

Methods == {"upcase", "each"}
SourceTypes == {String, array_of(Integer)}

SignatureRecord(receiver_class, method_name, return_type_str, block_param_types) ==
    [receiver_class |-> receiver_class, method_name |-> method_name,
     return_type_str |-> return_type_str, block_param_types |-> block_param_types]

(* the signature sets the registry is populated from *)
SignatureSets ==
    { << SignatureRecord("String", "upcase", <<"::String">>, None),
         SignatureRecord("String", "each", <<"untyped">>,
                         Some(<< <<"Integer">> >>)),
         SignatureRecord("Array", "each", <<"Array">>,
                         Some(<< <<"Elem">> >>)) >> }

Registries == {register_rbs_methods(<<>>, records) : records \in SignatureSets}

Env == [vertices |-> vertices, sources |-> sources, next_vertex_id |-> next_vertex_id,
        type_errors |-> type_errors, methods |-> methods]

Allocated == 0..(next_vertex_id - 1)

SourceEdges(g, pairs) ==
    {e \in pairs : e[1] \in DOMAIN g.sources /\ e[2] \in DOMAIN g.vertices}

(* the edges the graph records, and those still buffered *)
RecordedEdges ==
    UNION {{<<u, v>> : v \in vertices[u].next_vtxs} : u \in DOMAIN vertices}
EdgeCount ==
    Cardinality(RecordedEdges \cup source_edges) + Len(changes.new_edges)
        + Len(changes.edges)

(* the size of the installed program: its vertices, its edges and its boxes *)
Size == next_vertex_id + EdgeCount + next_box_id

AddedBy(cs) ==
    LET updates == reinstall(cs).updates
    IN {<<updates[i].src, updates[i].dst>> :
            i \in {j \in 1..Len(updates) : updates[j].kind = "Add"}}

-----------------------------------------------------------------------------
(* Scope manager (env/scope.rs) *)

ClassNames == {"A", "B", "V1::User"}
ModuleNames == {"M"}
MethodNames == {"m"}
IvarNames == {"@x"}

Class(name) == [tag |-> "Class", name |-> name, receiver_type |-> None]
Module(name) == [tag |-> "Module", name |-> name, receiver_type |-> None]
Method(name, receiver_type) ==
    [tag |-> "Method", name |-> name, receiver_type |-> receiver_type]
Block == [tag |-> "Block", name |-> "", receiver_type |-> None]
TopLevel == [tag |-> "TopLevel", name |-> "", receiver_type |-> None]

(* Scope::new *)
Scope_new(kind, parent) == [kind |-> kind, parent |-> parent, instance_vars |-> <<>>]

(* a ScopeManager as a value: [scopes, next_id, current_scope] *)
ScopeManager == [scopes |-> scopes, next_id |-> scope_next_id,
                 current_scope |-> current_scope]

(* ScopeManager::new *)
ScopeManager_new ==
    [scopes |-> [id \in {0} |-> Scope_new(TopLevel, None)], next_id |-> 1,
     current_scope |-> 0]

(* ScopeManager::new_scope: the manager and the id of the scope created *)
new_scope(sm, kind) ==
    [sm |-> [sm EXCEPT !.scopes = Extend(sm.scopes, sm.next_id,
                                         Scope_new(kind, Some(sm.current_scope))),
                       !.next_id = @ + 1],
     id |-> sm.next_id]

(* ScopeManager::enter_scope *)
enter_scope(sm, scope_id) == [sm EXCEPT !.current_scope = scope_id]

(* ScopeManager::exit_scope *)
exit_scope(sm) ==
    IF sm.current_scope \in DOMAIN sm.scopes
       /\ sm.scopes[sm.current_scope].parent # None
    THEN [sm EXCEPT !.current_scope = sm.scopes[sm.current_scope].parent.value]
    ELSE sm

(* Scope::get_instance_var *)
get_instance_var(scope, name) ==
    IF name \in DOMAIN scope.instance_vars THEN Some(scope.instance_vars[name])
    ELSE None

(* the walk of ScopeManager::lookup_instance_var from the scope `current` *)
RECURSIVE lookup_instance_var_from(_, _, _)
lookup_instance_var_from(sm, current, name) ==
    IF current = None THEN None
    ELSE IF current.value \notin DOMAIN sm.scopes THEN None
    ELSE LET scope == sm.scopes[current.value]
         IN IF scope.kind.tag = "Class" THEN get_instance_var(scope, name)
            ELSE lookup_instance_var_from(sm, scope.parent, name)

(* ScopeManager::lookup_instance_var *)
lookup_instance_var(sm, name) ==
    lookup_instance_var_from(sm, Some(sm.current_scope), name)

(* the walk of ScopeManager::set_instance_var_in_class from the scope `current` *)
RECURSIVE set_instance_var_in_class_from(_, _, _, _)
set_instance_var_in_class_from(sm, current, name, vtx) ==
    IF current = None THEN sm
    ELSE IF current.value \notin DOMAIN sm.scopes THEN sm
    ELSE LET scope == sm.scopes[current.value]
         IN IF scope.kind.tag = "Class"
            THEN [sm EXCEPT !.scopes[current.value].instance_vars =
                                Extend(@, name, vtx)]
            ELSE set_instance_var_in_class_from(sm, scope.parent, name, vtx)

(* ScopeManager::set_instance_var_in_class *)
set_instance_var_in_class(sm, name, vtx) ==
    set_instance_var_in_class_from(sm, Some(sm.current_scope), name, vtx)

(* the walk of ScopeManager::current_class_name *)
RECURSIVE current_class_name_from(_, _)
current_class_name_from(sm, current) ==
    IF current = None THEN None
    ELSE IF current.value \notin DOMAIN sm.scopes THEN None
    ELSE LET scope == sm.scopes[current.value]
         IN IF scope.kind.tag = "Class" THEN Some(scope.kind.name)
            ELSE current_class_name_from(sm, scope.parent)

(* ScopeManager::current_class_name *)
current_class_name(sm) == current_class_name_from(sm, Some(sm.current_scope))

(* GlobalEnv::enter_class *)
enter_class(sm, name) ==
    LET r == new_scope(sm, Class(name)) IN enter_scope(r.sm, r.id)

(* GlobalEnv::enter_method *)
enter_method(sm, name) ==
    LET r == new_scope(sm, Method(name, current_class_name(sm)))
    IN enter_scope(r.sm, r.id)

(* enter_block_scope (analyzer/blocks.rs) *)
enter_block_scope(sm) ==
    LET r == new_scope(sm, Block) IN enter_scope(r.sm, r.id)

(* install_ivar_write (analyzer/variables.rs) *)
install_ivar_write(sm, ivar_name, value_vtx) ==
    set_instance_var_in_class(sm, ivar_name, value_vtx)

(* install_ivar_read (analyzer/variables.rs) *)
install_ivar_read(sm, ivar_name) == lookup_instance_var(sm, ivar_name)

(* str::contains("::") over the names of the model *)
contains_path_separator(name) == name \in {"V1::User"}

(* the loop of ScopeManager::current_qualified_name that walks from `current` *)
(* to the top level and pushes the class and module names it meets          *)
RECURSIVE path_segments_from(_, _)
path_segments_from(sm, current) ==
    IF current = None THEN <<>>
    ELSE IF current.value \notin DOMAIN sm.scopes THEN <<>>
    ELSE LET scope == sm.scopes[current.value]
             pushed == IF scope.kind.tag \in {"Class", "Module"}
                       THEN (IF contains_path_separator(scope.kind.name)
                             THEN <<scope.kind.name>>
                             ELSE <<scope.kind.name>>)
                       ELSE <<>>
         IN pushed \o path_segments_from(sm, scope.parent)

(* the loop `for segment in path_segments` that builds the result string *)
RECURSIVE join_segments(_, _)
join_segments(result, path_segments) ==
    IF path_segments = <<>> THEN result
    ELSE join_segments((IF result # "" THEN result \o "::" ELSE result)
                           \o Head(path_segments),
                       Tail(path_segments))

(* current_qualified_name that joins the segments innermost first *)
current_qualified_name_unreversed(sm) ==
    LET path_segments == path_segments_from(sm, Some(sm.current_scope))
    IN IF path_segments = <<>> THEN None
       ELSE Some(join_segments("", path_segments))

(* ScopeManager::current_qualified_name *)
current_qualified_name(sm) ==
    LET path_segments == path_segments_from(sm, Some(sm.current_scope))
    IN IF path_segments = <<>> THEN None
       ELSE Some(join_segments("", Reverse(path_segments)))

(* install_self (analyzer/variables.rs): the environment with the new Source *)
install_self(env, sm) ==
    LET qualified_name == current_qualified_name(sm)
    IN IF qualified_name # None THEN new_source(env, Instance(qualified_name.value))
       ELSE new_source(env, Instance("Object"))

(* The nearest enclosing class/module frame of a scope, and whether a method *)
(* frame lies between the scope and that frame (inclusive of the scope).      *)
RECURSIVE EnclosingFrame(_, _)
EnclosingFrame(sm, current) ==
    IF current = None THEN None
    ELSE LET scope == sm.scopes[current.value]
         IN IF scope.kind.tag \in {"Class", "Module"} THEN current
            ELSE EnclosingFrame(sm, scope.parent)

RECURSIVE InsideMethod(_, _)
InsideMethod(sm, current) ==
    IF current = None THEN FALSE
    ELSE LET scope == sm.scopes[current.value]
         IN IF scope.kind.tag \in {"Class", "Module"} THEN FALSE
            ELSE IF scope.kind.tag = "Method" THEN TRUE
            ELSE InsideMethod(sm, scope.parent)

ScopeManagerInit ==
    /\ scopes = ScopeManager_new.scopes
    /\ scope_next_id = ScopeManager_new.next_id
    /\ current_scope = ScopeManager_new.current_scope
    /\ ivar_next_vtx = 0
    /\ ivar_writer = <<>>
    /\ last_read = None

-----------------------------------------------------------------------------
(* The AST installer (analyzer/*.rs).  An installer state st is the record   *)
(* [genv, boxes, next_box_id, run_queue, run_queue_set, lenv, changes, sm]. *)

(* char::len_utf8 over the characters of the model *)
len_utf8(ch) == IF ch \in {"U+00E9", "U+3042"} THEN 2 ELSE 1

(* the loop `for ch in source.chars()` of offset_to_line_column *)
RECURSIVE offset_scan(_, _, _, _, _)
offset_scan(chars, offset, line, column, current_offset) ==
    IF chars = <<>> \/ current_offset >= offset
    THEN [line |-> line, column |-> column]
    ELSE IF Head(chars) = "\n"
         THEN offset_scan(Tail(chars), offset, line + 1, 1,
                          current_offset + len_utf8(Head(chars)))
         ELSE offset_scan(Tail(chars), offset, line, column + 1,
                          current_offset + len_utf8(Head(chars)))

(* offset_to_line_column (source_map.rs) *)
offset_to_line_column(source, offset) == offset_scan(source, offset, 1, 1, 0)

(* SourceLocation::from_prism_location_with_source *)
from_prism_location_with_source(location, source) ==
    LET start_offset == location.start_offset
        length == location.end_offset - start_offset
        lc == offset_to_line_column(source, start_offset)
    IN [line |-> lc.line, column |-> lc.column, length |-> length]

(* LocalEnv::new_var, LocalEnv::get_var *)
new_var(locals, name, vtx_id) == Extend(locals, name, vtx_id)
get_var(locals, name) == IF name \in DOMAIN locals THEN Some(locals[name]) ELSE None

(* install_literal (analyzer/literals.rs): the type of the Source it creates *)
install_literal(node) ==
    CASE node.node = "StringNode" -> Some(String)
      [] node.node = "IntegerNode" -> Some(Integer)
      [] node.node = "FloatNode" -> Some(Instance("Float"))
      [] node.node = "HashNode" -> Some(Instance("Hash"))
      [] node.node = "NilNode" -> Some(Nil)
      [] node.node = "TrueNode" -> Some(Instance("TrueClass"))
      [] node.node = "FalseNode" -> Some(Instance("FalseClass"))
      [] node.node = "SymbolNode" -> Some(Instance("Symbol"))
      [] OTHER -> None

(* genv.new_source(ty) in an installer state: the state and the new id *)
st_new_source(st, ty) ==
    [st |-> [st EXCEPT !.genv = new_source(st.genv, ty)],
     vtx |-> Some(st.genv.next_vertex_id)]

(* genv.new_vertex() in an installer state *)
st_new_vertex(st) ==
    [st |-> [st EXCEPT !.genv = new_vertex(st.genv)],
     vtx |-> Some(st.genv.next_vertex_id)]

(* install_local_var_write that writes into the vertex the name is bound to *)
install_local_var_write_rebinding(st, var_name, value_vtx) ==
    IF var_name \in DOMAIN st.lenv
    THEN [st |-> [st EXCEPT !.changes = ChangeSet_add_edge(st.changes, value_vtx,
                                                           st.lenv[var_name])],
          vtx |-> Some(st.lenv[var_name])]
    ELSE LET var_vtx == st.genv.next_vertex_id
         IN [st |-> [st EXCEPT !.genv = new_vertex(st.genv),
                               !.lenv = new_var(st.lenv, var_name, var_vtx),
                               !.changes = ChangeSet_add_edge(st.changes, value_vtx,
                                                              var_vtx)],
             vtx |-> Some(var_vtx)]

(* install_local_var_write (analyzer/variables.rs) *)
install_local_var_write(st, var_name, value_vtx) ==
    LET var_vtx == st.genv.next_vertex_id
    IN [st |-> [st EXCEPT !.genv = new_vertex(st.genv),
                          !.lenv = new_var(st.lenv, var_name, var_vtx),
                          !.changes = ChangeSet_add_edge(st.changes, value_vtx, var_vtx)],
        vtx |-> Some(var_vtx)]

(* install_required_parameter (analyzer/parameters.rs), also install_block_parameter *)
install_required_parameter(st, name) ==
    LET param_vtx == st.genv.next_vertex_id
    IN [st |-> [st EXCEPT !.genv = new_vertex(st.genv),
                          !.lenv = new_var(st.lenv, name, param_vtx)],
        vtx |-> Some(param_vtx)]

(* install_method_call (analyzer/calls.rs) *)
install_method_call(st, recv_vtx, method_name, location) ==
    LET ret_vtx == st.genv.next_vertex_id
        box_id == st.next_box_id
        q == add_run([run_queue |-> st.run_queue, run_queue_set |-> st.run_queue_set],
                     box_id)
    IN [st |-> [st EXCEPT !.genv = new_vertex(st.genv),
                          !.next_box_id = @ + 1,
                          !.boxes = Extend(@, box_id,
                                           MethodCallBox_new(box_id, recv_vtx, method_name,
                                                             ret_vtx, location)),
                          !.run_queue = q.run_queue,
                          !.run_queue_set = q.run_queue_set],
        vtx |-> Some(ret_vtx)]

(* genv.alloc_box_id() followed by genv.register_box(box_id, block_box) *)
register_block_box(st, recv_vtx, method_name, block_param_vtxs) ==
    LET box_id == st.next_box_id
        q == add_run([run_queue |-> st.run_queue, run_queue_set |-> st.run_queue_set],
                     box_id)
    IN [st EXCEPT !.next_box_id = @ + 1,
                  !.boxes = Extend(@, box_id,
                                   BlockParameterTypeBox_new(box_id, recv_vtx, method_name,
                                                             block_param_vtxs)),
                  !.run_queue = q.run_queue,
                  !.run_queue_set = q.run_queue_set]

RECURSIVE install_node(_, _, _, _)
RECURSIVE install_statements(_, _, _, _)
RECURSIVE array_elements_each(_, _, _, _)

(* the loop over params.requireds() that installs each parameter *)
RECURSIVE required_parameters_each(_, _)
RECURSIVE optional_parameters_each(_, _, _, _)
required_parameters_each(acc, requireds) ==
    IF requireds = <<>> THEN acc
    ELSE LET r == install_required_parameter(acc.st, Head(requireds))
         IN required_parameters_each(
                [st |-> r.st, vtxs |-> Append(acc.vtxs, r.vtx.value)], Tail(requireds))

(* install_optional_parameter with the edge from the default buffered in *)
(* the change-set                                                         *)
install_optional_parameter_buffered(st, name, default_value_vtx, ord) ==
    LET param_vtx == st.genv.next_vertex_id
    IN [st |-> [st EXCEPT !.genv = new_vertex(st.genv),
                          !.changes = ChangeSet_add_edge(st.changes, default_value_vtx,
                                                         param_vtx),
                          !.lenv = new_var(st.lenv, name, param_vtx)],
        vtx |-> Some(param_vtx)]

(* install_optional_parameter (analyzer/parameters.rs): the edge from the *)
(* default is added to the graph at once                                  *)
install_optional_parameter(st, name, default_value_vtx, ord) ==
    LET param_vtx == st.genv.next_vertex_id
    IN [st |-> [st EXCEPT !.genv = add_edge(new_vertex(st.genv), default_value_vtx,
                                            param_vtx, ord),
                          !.lenv = new_var(st.lenv, name, param_vtx)],
        vtx |-> Some(param_vtx)]

(* install_rest_parameter, install_keyword_rest_parameter: a parameter    *)
(* fed by a fresh Source of the collection type                           *)
install_collecting_parameter(st, name, ty, ord) ==
    LET param_vtx == st.genv.next_vertex_id
        src == param_vtx + 1
    IN [st |-> [st EXCEPT !.genv = add_edge(new_source(new_vertex(st.genv), ty),
                                            src, param_vtx, ord),
                          !.lenv = new_var(st.lenv, name, param_vtx)],
        vtx |-> Some(param_vtx)]

install_rest_parameter(st, name, ord) == install_collecting_parameter(st, name, Array, ord)

install_keyword_rest_parameter(st, name, ord) ==
    install_collecting_parameter(st, name, Hash, ord)

(* an entry of the history of installed parameters *)
Logged(st, name, kind, vtx, default) ==
    [st EXCEPT !.params = Append(@, [name |-> name, kind |-> kind, vtx |-> vtx,
                                     default |-> default])]

(* the installer after a parameter, with the parameter in the history *)
logged_parameter(r, name, kind, default) == Logged(r.st, name, kind, r.vtx.value, default)

(* the body of the loop over the optional parameters, d being what the     *)
(* default value installed to: a default that yields no vertex leaves the  *)
(* parameter as a required one                                             *)
optional_parameter(d, opt_param, ord) ==
    IF d.vtx # None
    THEN logged_parameter(
             install_optional_parameter(d.st, opt_param.name, d.vtx.value, ord),
             opt_param.name, "optional",
             Some([vtx |-> d.vtx.value, literal |-> install_literal(opt_param.value)]))
    ELSE logged_parameter(install_required_parameter(d.st, opt_param.name),
                          opt_param.name, "required", None)

(* AstInstaller::install_parameters, the loop over the optional parameters *)
optional_parameters_each(st, optionals, source, ord) ==
    IF optionals = <<>> THEN st
    ELSE optional_parameters_each(
             optional_parameter(install_node(st, Head(optionals).value, source, ord),
                                Head(optionals), ord),
             Tail(optionals), source, ord)

(* the required parameters, installed, in the history *)
logged_requireds(requireds, names) ==
    [requireds.st EXCEPT !.params =
        @ \o [i \in 1..Len(names) |->
                 [name |-> names[i], kind |-> "required", vtx |-> requireds.vtxs[i],
                  default |-> None]]]

(* if let Some(rest) = params.rest() *)
rest_parameter(st, rest, ord) ==
    IF rest = None THEN st
    ELSE logged_parameter(install_rest_parameter(st, rest.value, ord), rest.value,
                          "rest", None)

(* if let Some(keyword_rest) = params.keyword_rest() *)
keyword_rest_parameter(st, keyword_rest, ord) ==
    IF keyword_rest = None THEN st
    ELSE logged_parameter(install_keyword_rest_parameter(st, keyword_rest.value, ord),
                          keyword_rest.value, "keyword_rest", None)

(* AstInstaller::install_parameters *)
install_parameters(st, params_node, source, ord) ==
    keyword_rest_parameter(
        rest_parameter(
            optional_parameters_each(
                logged_requireds(
                    required_parameters_each([st |-> st, vtxs |-> <<>>],
                                             params_node.requireds),
                    params_node.requireds),
                params_node.optionals, source, ord),
            params_node.rest, ord),
        params_node.keyword_rest, ord)

(* install_block_node_with_params that returns without leaving the block's scope *)
install_block_node_with_params_unclosed(st, block_node, source, ord) ==
    LET entered == [st EXCEPT !.sm = enter_block_scope(st.sm)]
        params == required_parameters_each([st |-> entered, vtxs |-> <<>>],
                                           block_node.parameters)
        body == install_statements(params.st, block_node.body, source, ord)
    IN [st |-> body, vtxs |-> params.vtxs]

(* AstInstaller::install_block_node_with_params: the state and the parameter ids *)
install_block_node_with_params(st, block_node, source, ord) ==
    LET entered == [st EXCEPT !.sm = enter_block_scope(st.sm)]
        params == required_parameters_each([st |-> entered, vtxs |-> <<>>],
                                           block_node.parameters)
        body == install_statements(params.st, block_node.body, source, ord)
    IN [st |-> [body EXCEPT !.sm = exit_scope(body.sm)], vtxs |-> params.vtxs]

(* AstInstaller::install_array_literal_elements *)
install_array_literal_elements(st, elements, source, ord) ==
    IF elements = <<>> THEN st_new_source(st, Array)
    ELSE LET r == array_elements_each([st |-> st, element_types |-> {}],
                                      elements, source, ord)
             array_type ==
                 IF r.element_types = {} THEN Array
                 ELSE IF Cardinality(r.element_types) = 1
                 THEN array_of(CHOOSE ty \in r.element_types : TRUE)
                 ELSE array_of(Union(Iterate(r.element_types, TypeRanking, ord)))
         IN st_new_source(r.st, array_type)

(* the loop `for element in &elements` of install_array_literal_elements *)
array_elements_each(acc, elements, source, ord) ==
    IF elements = <<>> THEN acc
    ELSE LET r == install_node(acc.st, Head(elements), source, ord)
             found ==
                 IF r.vtx = None THEN {}
                 ELSE IF r.vtx.value \in DOMAIN r.st.genv.sources
                 THEN {r.st.genv.sources[r.vtx.value]}
                 ELSE IF r.vtx.value \in DOMAIN r.st.genv.vertices
                 THEN DOMAIN r.st.genv.vertices[r.vtx.value].types
                 ELSE {}
         IN array_elements_each(
                [st |-> r.st, element_types |-> acc.element_types \cup found],
                Tail(elements), source, ord)

(* AstInstaller::process_needs_child for NeedsChildKind::MethodCall *)
process_method_call(st, node, source, ord) ==
    LET location == from_prism_location_with_source(node.location, source)
        r == install_node(st, node.receiver.value, source, ord)
    IN IF r.vtx = None THEN r
       ELSE LET recv_vtx == r.vtx.value
                b == IF node.block # None /\ node.block.value.node = "BlockNode"
                     THEN install_block_node_with_params(r.st, node.block.value,
                                                         source, ord)
                     ELSE [st |-> r.st, vtxs |-> <<>>]
                registered ==
                    IF b.vtxs # <<>>
                    THEN register_block_box(b.st, recv_vtx, node.name, b.vtxs)
                    ELSE b.st
            IN install_method_call(registered, recv_vtx, node.name, Some(location))

(* AstInstaller::install_statements *)
install_statements(st, statements, source, ord) ==
    IF statements = <<>> THEN st
    ELSE install_statements(install_node(st, Head(statements), source, ord).st,
                            Tail(statements), source, ord)

(* AstInstaller::install_node: the state and the vertex id of the node, if any *)
install_node(st, node, source, ord) ==
    CASE node.node = "ClassNode" ->
            LET entered == [st EXCEPT !.sm = enter_class(st.sm, node.name)]
                body == install_statements(entered, node.body, source, ord)
            IN [st |-> [body EXCEPT !.sm = exit_scope(body.sm)], vtx |-> None]
      [] node.node = "ModuleNode" ->
            LET m == new_scope(st.sm, Module(node.name))
                entered == [st EXCEPT !.sm = enter_scope(m.sm, m.id)]
                body == install_statements(entered, node.body, source, ord)
            IN [st |-> [body EXCEPT !.sm = exit_scope(body.sm)], vtx |-> None]
      [] node.node = "DefNode" ->
            LET entered == [st EXCEPT !.sm = enter_method(st.sm, node.name)]
                params == install_parameters(entered, node, source, ord)
                body == install_statements(params, node.body, source, ord)
            IN [st |-> [body EXCEPT !.sm = exit_scope(body.sm)], vtx |-> None]
      [] node.node = "BlockNode" ->
            [st |-> install_block_node_with_params(st, node, source, ord).st,
             vtx |-> None]
      [] node.node = "InstanceVariableReadNode" ->
            [st |-> st, vtx |-> install_ivar_read(st.sm, node.name)]
      [] node.node = "SelfNode" ->
            [st |-> [st EXCEPT !.genv = install_self(st.genv, st.sm)],
             vtx |-> Some(st.genv.next_vertex_id)]
      [] node.node = "LocalVariableReadNode" ->
            [st |-> st, vtx |-> get_var(st.lenv, node.name)]
      [] node.node = "ArrayNode" ->
            install_array_literal_elements(st, node.elements, source, ord)
      [] install_literal(node) # None ->
            st_new_source(st, install_literal(node).value)
      [] node.node = "InstanceVariableWriteNode" ->
            LET r == install_node(st, node.value, source, ord)
            IN IF r.vtx = None THEN r
               ELSE [st |-> [r.st EXCEPT !.sm = install_ivar_write(r.st.sm, node.name,
                                                                   r.vtx.value)],
                     vtx |-> r.vtx]
      [] node.node = "LocalVariableWriteNode" ->
            LET r == install_node(st, node.value, source, ord)
            IN IF r.vtx = None THEN r
               ELSE install_local_var_write(r.st, node.name, r.vtx.value)
      [] node.node = "CallNode" /\ node.receiver # None ->
            process_method_call(st, node, source, ord)
      [] OTHER -> [st |-> st, vtx |-> None]

-----------------------------------------------------------------------------
(* The files under analysis: the source text and the AST the parser gives.  *)
(* The location of a call node spans the whole call, receiver and block     *)
(* included, as byte offsets into the source.                               *)

IntegerNode == [node |-> "IntegerNode"]
StringNode == [node |-> "StringNode"]
NilNode == [node |-> "NilNode"]
SelfNode == [node |-> "SelfNode"]
ArrayNode(elements) == [node |-> "ArrayNode", elements |-> elements]
LocalVariableReadNode(name) == [node |-> "LocalVariableReadNode", name |-> name]
LocalVariableWriteNode(name, value) ==
    [node |-> "LocalVariableWriteNode", name |-> name, value |-> value]
CallNode(receiver, name, start_offset, end_offset, block) ==
    [node |-> "CallNode", receiver |-> Some(receiver), name |-> name,
     location |-> [start_offset |-> start_offset, end_offset |-> end_offset],
     block |-> block]
BlockNode(parameters, body) ==
    [node |-> "BlockNode", parameters |-> parameters, body |-> body]
ClassNode(name, body) == [node |-> "ClassNode", name |-> name, body |-> body]
ModuleNode(name, body) == [node |-> "ModuleNode", name |-> name, body |-> body]
InstanceVariableReadNode(name) == [node |-> "InstanceVariableReadNode", name |-> name]
InstanceVariableWriteNode(name, value) ==
    [node |-> "InstanceVariableWriteNode", name |-> name, value |-> value]
OptionalParameterNode(name, value) == [name |-> name, value |-> value]
DefNodeWithParameters(name, requireds, optionals, rest, keyword_rest, body) ==
    [node |-> "DefNode", name |-> name, requireds |-> requireds,
     optionals |-> optionals, rest |-> rest, keyword_rest |-> keyword_rest,
     body |-> body]
DefNode(name, requireds, body) ==
    DefNodeWithParameters(name, requireds, <<>>, None, None, body)

(* x = 123; y = x.upcase *)
UndefinedMethodProgram ==
    [source |->
        <<"x", " ", "=", " ", "1", "2", "3", "\n", "y", " ", "=", " ", "x",
          ".", "u", "p", "c", "a", "s", "e">>,
     statements |->
        <<LocalVariableWriteNode("x", IntegerNode),
          LocalVariableWriteNode("y", CallNode(LocalVariableReadNode("x"), "upcase", 12, 20, None))>>]

(* [1, 2, 3].each { |i| x = i.to_s } *)
BlockParameterProgram ==
    [source |->
        <<"[", "1", ",", " ", "2", ",", " ", "3", "]", ".", "e", "a", "c",
          "h", " ", "{", " ", "|", "i", "|", " ", "x", " ", "=", " ", "i",
          ".", "t", "o", "_", "s", " ", "}">>,
     statements |->
        <<CallNode(ArrayNode(<<IntegerNode, IntegerNode, IntegerNode>>), "each", 0, 33, Some(BlockNode(<<"i">>, <<LocalVariableWriteNode("x", CallNode(LocalVariableReadNode("i"), "to_s", 25, 31, None))>>)))>>]

(* x = 1; y = [x] *)
ArrayOfLocalProgram ==
    [source |->
        <<"x", " ", "=", " ", "1", "\n", "y", " ", "=", " ", "[", "x", "]">>,
     statements |->
        <<LocalVariableWriteNode("x", IntegerNode),
          LocalVariableWriteNode("y", ArrayNode(<<LocalVariableReadNode("x")>>))>>]

(* y = [1, "a"] *)
MixedArrayProgram ==
    [source |->
        <<"y", " ", "=", " ", "[", "1", ",", " ", "\"", "a", "\"", "]">>,
     statements |->
        <<LocalVariableWriteNode("y", ArrayNode(<<IntegerNode, StringNode>>))>>]

(* y = [] *)
EmptyArrayProgram ==
    [source |->
        <<"y", " ", "=", " ", "[", "]">>,
     statements |->
        <<LocalVariableWriteNode("y", ArrayNode(<<>>))>>]

(* y = [1, 2] *)
IntegerArrayProgram ==
    [source |->
        <<"y", " ", "=", " ", "[", "1", ",", " ", "2", "]">>,
     statements |->
        <<LocalVariableWriteNode("y", ArrayNode(<<IntegerNode, IntegerNode>>))>>]

(* x = "a"; y = x.upcase *)
UpcaseProgram ==
    [source |->
        <<"x", " ", "=", " ", "\"", "a", "\"", "\n", "y", " ", "=", " ",
          "x", ".", "u", "p", "c", "a", "s", "e">>,
     statements |->
        <<LocalVariableWriteNode("x", StringNode),
          LocalVariableWriteNode("y", CallNode(LocalVariableReadNode("x"), "upcase", 12, 20, None))>>]

(* x = 1; y = x.to_s; z = [y, x] *)
ToSProgram ==
    [source |->
        <<"x", " ", "=", " ", "1", "\n", "y", " ", "=", " ", "x", ".", "t",
          "o", "_", "s", "\n", "z", " ", "=", " ", "[", "y", ",", " ", "x",
          "]">>,
     statements |->
        <<LocalVariableWriteNode("x", IntegerNode),
          LocalVariableWriteNode("y", CallNode(LocalVariableReadNode("x"), "to_s", 10, 16, None)),
          LocalVariableWriteNode("z", ArrayNode(<<LocalVariableReadNode("y"), LocalVariableReadNode("x")>>))>>]

(* y = [1, "a"]; y.each { |e| z = e } *)
LiteralBlockProgram ==
    [source |->
        <<"y", " ", "=", " ", "[", "1", ",", " ", "\"", "a", "\"", "]",
          "\n", "y", ".", "e", "a", "c", "h", " ", "{", " ", "|", "e", "|",
          " ", "z", " ", "=", " ", "e", " ", "}">>,
     statements |->
        <<LocalVariableWriteNode("y", ArrayNode(<<IntegerNode, StringNode>>)),
          CallNode(LocalVariableReadNode("y"), "each", 13, 33, Some(BlockNode(<<"e">>, <<LocalVariableWriteNode("z", LocalVariableReadNode("e"))>>)))>>]

(* class A; def m(a); x = self; y = [nil, x]; end; end *)
SelfProgram ==
    [source |->
        <<"c", "l", "a", "s", "s", " ", "A", "\n", " ", " ", "d", "e", "f",
          " ", "m", "(", "a", ")", "\n", " ", " ", " ", " ", "x", " ", "=",
          " ", "s", "e", "l", "f", "\n", " ", " ", " ", " ", "y", " ", "=",
          " ", "[", "n", "i", "l", ",", " ", "x", "]", "\n", " ", " ", "e",
          "n", "d", "\n", "e", "n", "d">>,
     statements |->
        <<ClassNode("A", <<DefNode("m", <<"a">>, <<LocalVariableWriteNode("x", SelfNode), LocalVariableWriteNode("y", ArrayNode(<<NilNode, LocalVariableReadNode("x")>>))>>)>>)>>]

(* x = 1.to_s.upcase *)
ChainProgram ==
    [source |->
        <<"x", " ", "=", " ", "1", ".", "t", "o", "_", "s", ".", "u", "p",
          "c", "a", "s", "e">>,
     statements |->
        <<LocalVariableWriteNode("x", CallNode(CallNode(IntegerNode, "to_s", 4, 10, None), "upcase", 4, 17, None))>>]

(* x = "a".to_s; y = nil *)
LiteralReceiverProgram ==
    [source |->
        <<"x", " ", "=", " ", "\"", "a", "\"", ".", "t", "o", "_", "s",
          "\n", "y", " ", "=", " ", "n", "i", "l">>,
     statements |->
        <<LocalVariableWriteNode("x", CallNode(StringNode, "to_s", 4, 12, None)),
          LocalVariableWriteNode("y", NilNode)>>]

(* y = x.upcase; z = [1] *)
UnknownLocalProgram ==
    [source |->
        <<"y", " ", "=", " ", "x", ".", "u", "p", "c", "a", "s", "e", "\n",
          "z", " ", "=", " ", "[", "1", "]">>,
     statements |->
        <<LocalVariableWriteNode("y", CallNode(LocalVariableReadNode("x"), "upcase", 4, 12, None)),
          LocalVariableWriteNode("z", ArrayNode(<<IntegerNode>>))>>]

(* a = [1, "a"]; b = ["a", 1] *)
ReorderedArrayProgram ==
    [source |->
        <<"a", " ", "=", " ", "[", "1", ",", " ", "\"", "a", "\"", "]",
          "\n", "b", " ", "=", " ", "[", "\"", "a", "\"", ",", " ", "1",
          "]">>,
     statements |->
        <<LocalVariableWriteNode("a", ArrayNode(<<IntegerNode, StringNode>>)),
          LocalVariableWriteNode("b", ArrayNode(<<StringNode, IntegerNode>>))>>]

(* class A; def m; @x = 1; y = @x; z = @w; end; end *)
IvarProgram ==
    [source |->
        <<"c", "l", "a", "s", "s", " ", "A", "\n", " ", " ", "d", "e", "f",
          " ", "m", "\n", " ", " ", " ", " ", "@", "x", " ", "=", " ", "1",
          "\n", " ", " ", " ", " ", "y", " ", "=", " ", "@", "x", "\n",
          " ", " ", " ", " ", "z", " ", "=", " ", "@", "w", "\n", " ", " ",
          "e", "n", "d", "\n", "e", "n", "d">>,
     statements |->
        <<ClassNode("A", <<DefNode("m", <<>>, <<InstanceVariableWriteNode("@x", IntegerNode), LocalVariableWriteNode("y", InstanceVariableReadNode("@x")), LocalVariableWriteNode("z", InstanceVariableReadNode("@w"))>>)>>)>>]

(* x = 1; x = "a"; y = x.upcase *)
ReassignProgram ==
    [source |->
        <<"x", " ", "=", " ", "1", "\n", "x", " ", "=", " ", "\"", "a",
          "\"", "\n", "y", " ", "=", " ", "x", ".", "u", "p", "c", "a",
          "s", "e">>,
     statements |->
        <<LocalVariableWriteNode("x", IntegerNode),
          LocalVariableWriteNode("x", StringNode),
          LocalVariableWriteNode("y", CallNode(LocalVariableReadNode("x"), "upcase", 18, 26, None))>>]

(* a = [1]; a.each { |i| i.to_s }; b = i *)
BlockOnLocalProgram ==
    [source |->
        <<"a", " ", "=", " ", "[", "1", "]", "\n", "a", ".", "e", "a", "c",
          "h", " ", "{", " ", "|", "i", "|", " ", "i", ".", "t", "o", "_",
          "s", " ", "}", "\n", "b", " ", "=", " ", "i">>,
     statements |->
        <<LocalVariableWriteNode("a", ArrayNode(<<IntegerNode>>)),
          CallNode(LocalVariableReadNode("a"), "each", 8, 29, Some(BlockNode(<<"i">>, <<CallNode(LocalVariableReadNode("i"), "to_s", 21, 27, None)>>))),
          LocalVariableWriteNode("b", LocalVariableReadNode("i"))>>]

(* module M; class A; x = self; end; y = self; end *)
ModuleProgram ==
    [source |->
        <<"m", "o", "d", "u", "l", "e", " ", "M", "\n", " ", " ", "c", "l",
          "a", "s", "s", " ", "A", "\n", " ", " ", " ", " ", "x", " ", "=",
          " ", "s", "e", "l", "f", "\n", " ", " ", "e", "n", "d", "\n",
          " ", " ", "y", " ", "=", " ", "s", "e", "l", "f", "\n", "e", "n",
          "d">>,
     statements |->
        <<ModuleNode("M", <<ClassNode("A", <<LocalVariableWriteNode("x", SelfNode)>>), LocalVariableWriteNode("y", SelfNode)>>)>>]

(* x = 1; y = x; z = y.to_s *)
CopyProgram ==
    [source |->
        <<"x", " ", "=", " ", "1", "\n", "y", " ", "=", " ", "x", "\n",
          "z", " ", "=", " ", "y", ".", "t", "o", "_", "s">>,
     statements |->
        <<LocalVariableWriteNode("x", IntegerNode),
          LocalVariableWriteNode("y", LocalVariableReadNode("x")),
          LocalVariableWriteNode("z", CallNode(LocalVariableReadNode("y"), "to_s", 16, 22, None))>>]

(* x = nil; y = x.to_s *)
NilReceiverProgram ==
    [source |->
        <<"x", " ", "=", " ", "n", "i", "l", "\n", "y", " ", "=", " ", "x",
          ".", "t", "o", "_", "s">>,
     statements |->
        <<LocalVariableWriteNode("x", NilNode),
          LocalVariableWriteNode("y", CallNode(LocalVariableReadNode("x"), "to_s", 12, 18, None))>>]

(* x = [1, "a"]; y = [x, 2]; z = y.each *)
NestedArrayProgram ==
    [source |->
        <<"x", " ", "=", " ", "[", "1", ",", " ", "\"", "a", "\"", "]",
          "\n", "y", " ", "=", " ", "[", "x", ",", " ", "2", "]", "\n",
          "z", " ", "=", " ", "y", ".", "e", "a", "c", "h">>,
     statements |->
        <<LocalVariableWriteNode("x", ArrayNode(<<IntegerNode, StringNode>>)),
          LocalVariableWriteNode("y", ArrayNode(<<LocalVariableReadNode("x"), IntegerNode>>)),
          LocalVariableWriteNode("z", CallNode(LocalVariableReadNode("y"), "each", 28, 34, None))>>]

(* x = []; x.each { |e| y = e.upcase }; z = [y, nil, 1] *)
EmptyEachProgram ==
    [source |->
        <<"x", " ", "=", " ", "[", "]", "\n", "x", ".", "e", "a", "c", "h",
          " ", "{", " ", "|", "e", "|", " ", "y", " ", "=", " ", "e", ".",
          "u", "p", "c", "a", "s", "e", " ", "}", "\n", "z", " ", "=", " ",
          "[", "y", ",", " ", "n", "i", "l", ",", " ", "1", "]">>,
     statements |->
        <<LocalVariableWriteNode("x", ArrayNode(<<>>)),
          CallNode(LocalVariableReadNode("x"), "each", 7, 34, Some(BlockNode(<<"e">>, <<LocalVariableWriteNode("y", CallNode(LocalVariableReadNode("e"), "upcase", 24, 32, None))>>))),
          LocalVariableWriteNode("z", ArrayNode(<<LocalVariableReadNode("y"), NilNode, IntegerNode>>))>>]

(* def collect with the rest parameter items; items; end *)
RestProgram ==
    [source |->
        <<"d", "e", "f", " ", "c", "o", "l", "l", "e", "c", "t", "(", "*",
          "i", "t", "e", "m", "s", ")", "\n", " ", " ", "i", "t", "e", "m",
          "s", "\n", "e", "n", "d">>,
     statements |->
        <<DefNodeWithParameters("collect", <<>>, <<>>, Some("items"), None,
              <<LocalVariableReadNode("items")>>)>>]

(* def greet(name = "World"); y = name.upcase; z = [name]; end *)
OptionalProgram ==
    [source |->
        <<"d", "e", "f", " ", "g", "r", "e", "e", "t", "(", "n", "a", "m",
          "e", " ", "=", " ", "\"", "W", "o", "r", "l", "d", "\"", ")",
          "\n", " ", " ", "y", " ", "=", " ", "n", "a", "m", "e", ".", "u",
          "p", "c", "a", "s", "e", "\n", " ", " ", "z", " ", "=", " ", "[",
          "n", "a", "m", "e", "]", "\n", "e", "n", "d">>,
     statements |->
        <<DefNodeWithParameters("greet", <<>>, <<OptionalParameterNode("name", StringNode)>>, None, None,
              <<LocalVariableWriteNode("y", CallNode(LocalVariableReadNode("name"), "upcase", 32, 43, None)), LocalVariableWriteNode("z", ArrayNode(<<LocalVariableReadNode("name")>>))>>)>>]

(* def configure with the keyword-rest parameter options; options; end *)
KeywordRestProgram ==
    [source |->
        <<"d", "e", "f", " ", "c", "o", "n", "f", "i", "g", "u", "r", "e",
          "(", "*", "*", "o", "p", "t", "i", "o", "n", "s", ")", "\n", " ",
          " ", "o", "p", "t", "i", "o", "n", "s", "\n", "e", "n", "d">>,
     statements |->
        <<DefNodeWithParameters("configure", <<>>, <<>>, None, Some("options"),
              <<LocalVariableReadNode("options")>>)>>]

(* x = 1; def f(a, b = 1.to_s, c = x, d = w, *r, **k); e = b; end *)
ParametersProgram ==
    [source |->
        <<"x", " ", "=", " ", "1", "\n", "d", "e", "f", " ", "f", "(", "a",
          ",", " ", "b", " ", "=", " ", "1", ".", "t", "o", "_", "s", ",",
          " ", "c", " ", "=", " ", "x", ",", " ", "d", " ", "=", " ", "w",
          ",", " ", "*", "r", ",", " ", "*", "*", "k", ")", "\n", " ", " ",
          "e", " ", "=", " ", "b", "\n", "e", "n", "d">>,
     statements |->
        <<LocalVariableWriteNode("x", IntegerNode),
          DefNodeWithParameters("f", <<"a">>, <<OptionalParameterNode("b", CallNode(IntegerNode, "to_s", 19, 25, None)), OptionalParameterNode("c", LocalVariableReadNode("x")), OptionalParameterNode("d", LocalVariableReadNode("w"))>>, Some("r"), Some("k"),
              <<LocalVariableWriteNode("e", LocalVariableReadNode("b"))>>)>>]

(* x = [[1]]; x.each { |row| row.each { |item| y = item.to_s } } *)
NestedBlocksProgram ==
    [source |->
        <<"x", " ", "=", " ", "[", "[", "1", "]", "]", "\n", "x", ".", "e",
          "a", "c", "h", " ", "{", " ", "|", "r", "o", "w", "|", " ", "r",
          "o", "w", ".", "e", "a", "c", "h", " ", "{", " ", "|", "i", "t",
          "e", "m", "|", " ", "y", " ", "=", " ", "i", "t", "e", "m", ".",
          "t", "o", "_", "s", " ", "}", " ", "}">>,
     statements |->
        <<LocalVariableWriteNode("x", ArrayNode(<<ArrayNode(<<IntegerNode>>)>>)),
          CallNode(LocalVariableReadNode("x"), "each", 10, 60, Some(BlockNode(<<"row">>, <<CallNode(LocalVariableReadNode("row"), "each", 25, 58, Some(BlockNode(<<"item">>, <<LocalVariableWriteNode("y", CallNode(LocalVariableReadNode("item"), "to_s", 47, 56, None))>>)))>>)))>>]

(* x = 1; y = x; w = x.to_s; x = "a"; z = x *)
RebindProgram ==
    [source |->
        <<"x", " ", "=", " ", "1", "\n", "y", " ", "=", " ", "x", "\n",
          "w", " ", "=", " ", "x", ".", "t", "o", "_", "s", "\n", "x", " ",
          "=", " ", "\"", "a", "\"", "\n", "z", " ", "=", " ", "x">>,
     statements |->
        <<LocalVariableWriteNode("x", IntegerNode),
          LocalVariableWriteNode("y", LocalVariableReadNode("x")),
          LocalVariableWriteNode("w", CallNode(LocalVariableReadNode("x"), "to_s", 16, 22, None)),
          LocalVariableWriteNode("x", StringNode),
          LocalVariableWriteNode("z", LocalVariableReadNode("x"))>>]

(* module M; class A; def m; y = w.upcase; [1].each { |i| z = q }; @v = u; end; end; end *)
NestedScopesProgram ==
    [source |->
        <<"m", "o", "d", "u", "l", "e", " ", "M", "\n", " ", " ", "c", "l",
          "a", "s", "s", " ", "A", "\n", " ", " ", " ", " ", "d", "e", "f",
          " ", "m", "\n", " ", " ", " ", " ", " ", " ", "y", " ", "=", " ",
          "w", ".", "u", "p", "c", "a", "s", "e", "\n", " ", " ", " ", " ",
          " ", " ", "[", "1", "]", ".", "e", "a", "c", "h", " ", "{", " ",
          "|", "i", "|", " ", "z", " ", "=", " ", "q", " ", "}", "\n", " ",
          " ", " ", " ", " ", " ", "@", "v", " ", "=", " ", "u", "\n", " ",
          " ", " ", " ", "e", "n", "d", "\n", " ", " ", "e", "n", "d",
          "\n", "e", "n", "d">>,
     statements |->
        <<ModuleNode("M", <<ClassNode("A", <<DefNode("m", <<>>, <<LocalVariableWriteNode("y", CallNode(LocalVariableReadNode("w"), "upcase", 39, 47, None)), CallNode(ArrayNode(<<IntegerNode>>), "each", 54, 76, Some(BlockNode(<<"i">>, <<LocalVariableWriteNode("z", LocalVariableReadNode("q"))>>))), InstanceVariableWriteNode("@v", LocalVariableReadNode("u"))>>)>>)>>)>>]

(* "ab".each_char { |c| y = c.upcase } *)
StringBlockProgram ==
    [source |->
        <<"\"", "a", "b", "\"", ".", "e", "a", "c", "h", "_", "c", "h",
          "a", "r", " ", "{", " ", "|", "c", "|", " ", "y", " ", "=", " ",
          "c", ".", "u", "p", "c", "a", "s", "e", " ", "}">>,
     statements |->
        <<CallNode(StringNode, "each_char", 0, 35, Some(BlockNode(<<"c">>, <<LocalVariableWriteNode("y", CallNode(LocalVariableReadNode("c"), "upcase", 25, 33, None))>>)))>>]

(* i = "a"; [1].each { |i| i.to_s }; b = i *)
ShadowingBlockProgram ==
    [source |->
        <<"i", " ", "=", " ", "\"", "a", "\"", "\n", "[", "1", "]", ".",
          "e", "a", "c", "h", " ", "{", " ", "|", "i", "|", " ", "i", ".",
          "t", "o", "_", "s", " ", "}", "\n", "b", " ", "=", " ", "i">>,
     statements |->
        <<LocalVariableWriteNode("i", StringNode),
          CallNode(ArrayNode(<<IntegerNode>>), "each", 8, 31, Some(BlockNode(<<"i">>, <<CallNode(LocalVariableReadNode("i"), "to_s", 23, 29, None)>>))),
          LocalVariableWriteNode("b", LocalVariableReadNode("i"))>>]

(* x = 1; def f(x); z = x; end; y = x *)
ShadowingMethodProgram ==
    [source |->
        <<"x", " ", "=", " ", "1", "\n", "d", "e", "f", " ", "f", "(", "x",
          ")", "\n", " ", " ", "z", " ", "=", " ", "x", "\n", "e", "n",
          "d", "\n", "y", " ", "=", " ", "x">>,
     statements |->
        <<LocalVariableWriteNode("x", IntegerNode),
          DefNode("f", <<"x">>, <<LocalVariableWriteNode("z", LocalVariableReadNode("x"))>>),
          LocalVariableWriteNode("y", LocalVariableReadNode("x"))>>]

Programs ==
    {UndefinedMethodProgram,
     BlockParameterProgram,
     ArrayOfLocalProgram,
     MixedArrayProgram,
     EmptyArrayProgram,
     IntegerArrayProgram,
     UpcaseProgram,
     ToSProgram,
     LiteralBlockProgram,
     SelfProgram,
     ChainProgram,
     LiteralReceiverProgram,
     UnknownLocalProgram,
     ReorderedArrayProgram,
     IvarProgram,
     ReassignProgram,
     BlockOnLocalProgram,
     ModuleProgram,
     CopyProgram,
     NilReceiverProgram,
     NestedArrayProgram,
     EmptyEachProgram,
     RestProgram,
     OptionalProgram,
     KeywordRestProgram,
     ParametersProgram,
     NestedBlocksProgram,
     RebindProgram,
     NestedScopesProgram,
     StringBlockProgram,
     ShadowingBlockProgram,
     ShadowingMethodProgram}

(* the signatures the analysis runs with *)
AnalysisSignatures ==
    << SignatureRecord("Array", "each", <<"Array">>, Some(<< <<"Elem">> >>)),
       SignatureRecord("Integer", "to_s", <<"String">>, None),
       SignatureRecord("String", "upcase", <<"String">>, None),
       SignatureRecord("String", "each_char", <<"String">>, Some(<< <<"String">> >>)) >>

-----------------------------------------------------------------------------
(* Operations of the graph engine *)

Init ==
    /\ vertices = <<>>
    /\ sources = <<>>
    /\ next_vertex_id = 0
    /\ boxes = <<>>
    /\ next_box_id = 0
    /\ run_queue = <<>>
    /\ run_queue_set = {}
    /\ methods \in Registries
    /\ type_errors = <<>>
    /\ changes = ChangeSet_new
    /\ pc = "install"
    /\ source_edges = {}
    /\ ScopeManagerInit
    /\ program = [source |-> <<>>, statements |-> <<>>]
    /\ stmt_index = 0
    /\ lenv = <<>>
    /\ param_log = <<>>
    /\ bundled_cache = None
    /\ user_cache = None
    /\ procs = <<>>
    /\ conv = None
    /\ popped = None
    /\ run_count = <<>>

(* genv.new_vertex() *)
NewVertex ==
    /\ pc = "install"
    /\ Size < MaxSize
    /\ vertices' = new_vertex(Env).vertices
    /\ next_vertex_id' = next_vertex_id + 1
    /\ UNCHANGED <<sources, boxes, next_box_id, run_queue, run_queue_set, methods,
                   type_errors, changes, pc, source_edges, scope_vars, aux_vars>>

(* genv.new_source(ty) *)
NewSource ==
    /\ pc = "install"
    /\ Size < MaxSize
    /\ \E ty \in SourceTypes : sources' = new_source(Env, ty).sources
    /\ next_vertex_id' = next_vertex_id + 1
    /\ UNCHANGED <<vertices, boxes, next_box_id, run_queue, run_queue_set, methods,
                   type_errors, changes, pc, source_edges, scope_vars, aux_vars>>

(* genv.add_edge(src, dst) *)
AddEdge ==
    /\ pc = "install"
    /\ Size < MaxSize
    /\ \E src \in Allocated, dst \in Allocated, ord \in Orders :
          LET g == add_edge(Env, src, dst, ord)
          IN /\ vertices' = g.vertices
             /\ sources' = g.sources
             /\ source_edges' = source_edges \cup SourceEdges(g, {<<src, dst>>})
    /\ UNCHANGED <<next_vertex_id, boxes, next_box_id, run_queue, run_queue_set,
                   methods, type_errors, changes, pc, scope_vars, aux_vars>>

(* genv.add_edge(dst, src) for an edge src -> dst the graph records: the *)
(* edge closes a cycle, and may be the one edge past MaxSize             *)
CloseCycle ==
    /\ pc = "install"
    /\ Size <= MaxSize
    /\ \E e \in RecordedEdges : \E ord \in Orders :
          LET g == add_edge(Env, e[2], e[1], ord)
          IN /\ e[2] \in DOMAIN vertices
             /\ e[1] \notin vertices[e[2]].next_vtxs
             /\ vertices' = g.vertices
             /\ sources' = g.sources
             /\ source_edges' = source_edges
    /\ UNCHANGED <<next_vertex_id, boxes, next_box_id, run_queue, run_queue_set,
                   methods, type_errors, changes, pc, scope_vars, aux_vars>>

(* changes.add_edge(src, dst): the edge is buffered *)
BufferEdge ==
    /\ pc = "install"
    /\ Size < MaxSize
    /\ Len(changes.new_edges) < MaxPending
    /\ \E src \in Allocated, dst \in Allocated :
          changes' = ChangeSet_add_edge(changes, src, dst)
    /\ UNCHANGED <<vertices, sources, next_vertex_id, boxes, next_box_id, run_queue,
                   run_queue_set, methods, type_errors, pc, source_edges, scope_vars, aux_vars>>

(* changes.reinstall(): the buffer is committed to the baseline, nothing applied *)
Commit ==
    /\ pc = "install"
    /\ changes.new_edges # <<>>
    /\ changes' = reinstall(changes).cs
    /\ UNCHANGED <<vertices, sources, next_vertex_id, boxes, next_box_id, run_queue,
                   run_queue_set, methods, type_errors, pc, source_edges, scope_vars, aux_vars>>

(* genv.apply_changes(changes): the change-set is consumed *)
ApplyChanges ==
    /\ pc = "install"
    /\ changes # ChangeSet_new
    /\ \E ord \in Orders :
          LET g == apply_changes(Env, changes, ord)
          IN /\ vertices' = g.vertices
             /\ sources' = g.sources
             /\ source_edges' = source_edges \cup SourceEdges(g, AddedBy(changes))
    /\ changes' = ChangeSet_new
    /\ UNCHANGED <<next_vertex_id, boxes, next_box_id, run_queue, run_queue_set,
                   methods, type_errors, pc, scope_vars, aux_vars>>

(* install_method_call(genv, recv_vtx, method_name, location) *)
InstallMethodCall ==
    /\ pc = "install"
    /\ Size + 1 < MaxSize
    /\ \E recv_vtx \in Allocated, method_name \in Methods :
          LET ret_vtx == next_vertex_id
              box_id == next_box_id
              q == add_run([run_queue |-> run_queue, run_queue_set |-> run_queue_set],
                           box_id)
          IN /\ vertices' = new_vertex(Env).vertices
             /\ boxes' = Extend(boxes, box_id,
                                MethodCallBox_new(box_id, recv_vtx, method_name, ret_vtx,
                                                  None))
             /\ run_queue' = q.run_queue
             /\ run_queue_set' = q.run_queue_set
    /\ next_vertex_id' = next_vertex_id + 1
    /\ next_box_id' = next_box_id + 1
    /\ UNCHANGED <<sources, methods, type_errors, changes, pc, source_edges, scope_vars, aux_vars>>

(* alloc_box_id and register_box for a BlockParameterTypeBox *)
InstallBlockParameterTypeBox ==
    /\ pc = "install"
    /\ Size < MaxSize
    /\ \E recv_vtx \in Allocated, method_name \in Methods, param_vtx \in DOMAIN vertices :
          LET box_id == next_box_id
              q == add_run([run_queue |-> run_queue, run_queue_set |-> run_queue_set],
                           box_id)
          IN /\ boxes' = Extend(boxes, box_id,
                                BlockParameterTypeBox_new(box_id, recv_vtx, method_name,
                                                          <<param_vtx>>))
             /\ run_queue' = q.run_queue
             /\ run_queue_set' = q.run_queue_set
    /\ next_box_id' = next_box_id + 1
    /\ UNCHANGED <<vertices, sources, next_vertex_id, methods, type_errors, changes, pc,
                   source_edges, scope_vars, aux_vars>>

(* the runs the history holds for a box, and the history with one more run *)
RunCount(counts, box_id) == IF box_id \in DOMAIN counts THEN counts[box_id] ELSE 0
counted(counts, box_id) == Extend(counts, box_id, RunCount(counts, box_id) + 1)

(* AstInstaller::finish: apply_changes(self.changes), then run_all begins *)
Finish ==
    /\ pc = "install"
    /\ stmt_index = Len(program.statements)
    /\ \E ord \in Orders :
          LET g == apply_changes(Env, changes, ord)
          IN /\ vertices' = g.vertices
             /\ sources' = g.sources
             /\ source_edges' = source_edges \cup SourceEdges(g, AddedBy(changes))
    /\ changes' = ChangeSet_new
    /\ pc' = "drain"
    /\ UNCHANGED <<next_vertex_id, boxes, next_box_id, run_queue, run_queue_set,
                   methods, type_errors, scope_vars, aux_vars>>

(* one iteration of the loop of GlobalEnv::run_all *)
RunAllStep ==
    /\ pc = "drain"
    /\ run_queue # <<>>
    /\ \E ord \in Orders :
          LET box_id == Head(run_queue)
              r == run(Env, boxes[box_id], ChangeSet_new, ord)
              g == apply_changes(r.env, r.changes, ord)
          IN /\ r.env.next_vertex_id <= IdLimit
             /\ run_queue' = pop_front(run_queue)
             /\ run_queue_set' = run_queue_set \ {box_id}
             /\ IF box_id \in DOMAIN boxes
                THEN /\ boxes' = [boxes EXCEPT ![box_id] = r.bx]
                     /\ vertices' = g.vertices
                     /\ sources' = g.sources
                     /\ next_vertex_id' = g.next_vertex_id
                     /\ type_errors' = g.type_errors
                     /\ source_edges' =
                            source_edges \cup SourceEdges(g, AddedBy(r.changes))
                     /\ run_count' = counted(run_count, box_id)
                ELSE UNCHANGED <<boxes, vertices, sources, next_vertex_id, type_errors,
                                 source_edges, run_count>>
    /\ UNCHANGED <<next_box_id, methods, changes, pc, scope_vars, walk_vars, cache_vars,
                   conv, popped>>

(* bx.run(&mut genv, &mut changes) called on a box directly, as the tests *)
(* of graph/box.rs call it: the change-set is left to apply_changes      *)
RunBox ==
    /\ pc = "install"
    /\ \E box_id \in DOMAIN boxes, ord \in Orders :
          LET r == run(Env, boxes[box_id], changes, ord)
          IN /\ Size + (r.env.next_vertex_id - next_vertex_id)
                     + (Len(r.changes.new_edges) - Len(changes.new_edges)) <= MaxSize
             /\ Len(r.changes.new_edges) <= MaxPending
             /\ Len(r.env.type_errors) <= MaxPending
             /\ boxes' = [boxes EXCEPT ![box_id] = r.bx]
             /\ vertices' = r.env.vertices
             /\ sources' = r.env.sources
             /\ next_vertex_id' = r.env.next_vertex_id
             /\ type_errors' = r.env.type_errors
             /\ changes' = r.changes
    /\ UNCHANGED <<next_box_id, run_queue, run_queue_set, methods, pc, source_edges,
                   scope_vars, aux_vars>>

Next ==
    \/ NewVertex
    \/ NewSource
    \/ AddEdge
    \/ BufferEdge
    \/ Commit
    \/ ApplyChanges
    \/ InstallMethodCall
    \/ InstallBlockParameterTypeBox
    \/ Finish
    \/ RunAllStep

Spec == Init /\ [][Next]_vars

(* the graph store alone: edges added directly and through change-sets *)
GraphNext ==
    \/ NewVertex
    \/ NewSource
    \/ AddEdge
    \/ BufferEdge
    \/ Commit
    \/ ApplyChanges

GraphSpec == Init /\ [][GraphNext]_vars

(* boxes installed and run one by one, their change-sets applied afterwards *)
BoxNext ==
    \/ NewVertex
    \/ NewSource
    \/ AddEdge
    \/ InstallMethodCall
    \/ InstallBlockParameterTypeBox
    \/ RunBox
    \/ ApplyChanges

BoxSpec == Init /\ [][BoxNext]_vars

(* genv.add_run(box_id) for a registered box, before run_all or between *)
(* two calls of run_all                                                 *)
AddRun ==
    /\ pc = "install" \/ (pc = "drain" /\ run_queue = <<>>)
    /\ \E box_id \in DOMAIN boxes :
          LET q == add_run([run_queue |-> run_queue, run_queue_set |-> run_queue_set],
                           box_id)
          IN /\ run_queue' = q.run_queue
             /\ run_queue_set' = q.run_queue_set
    /\ pc' = "install"
    /\ run_count' = <<>>
    /\ UNCHANGED <<vertices, sources, next_vertex_id, boxes, next_box_id, methods,
                   type_errors, changes, source_edges, scope_vars, walk_vars, cache_vars,
                   conv, popped>>

(* the scheduler: boxes are registered, enqueued, drained and enqueued again *)
SchedulerNext ==
    \/ NewVertex
    \/ InstallMethodCall
    \/ InstallBlockParameterTypeBox
    \/ AddRun
    \/ Finish
    \/ RunAllStep

SchedulerSpec == Init /\ [][SchedulerNext]_vars

(* GlobalEnv::run_all statement by statement.  popped holds the locals of *)
(* the iteration under way: box_id, temp_box (None once it is moved back  *)
(* into the table), changes (None once it is moved into apply_changes)    *)
(* and whether temp_box.run has returned.                                 *)

(* run_queue.pop_front(), run_queue_set.remove, ChangeSet::new() and *)
(* boxes.remove(&box_id)                                             *)
PopFront ==
    /\ pc = "drain"
    /\ popped = None
    /\ run_queue # <<>>
    /\ LET box_id == Head(run_queue)
       IN /\ run_queue' = pop_front(run_queue)
          /\ run_queue_set' = run_queue_set \ {box_id}
          /\ IF box_id \in DOMAIN boxes
             THEN /\ popped' = Some([box_id |-> box_id, temp_box |-> Some(boxes[box_id]),
                                     changes |-> Some(ChangeSet_new), ran |-> FALSE])
                  /\ boxes' = [id \in (DOMAIN boxes) \ {box_id} |-> boxes[id]]
             ELSE UNCHANGED <<popped, boxes>>
    /\ UNCHANGED <<vertices, sources, next_vertex_id, next_box_id, methods, type_errors,
                   changes, pc, source_edges, scope_vars, walk_vars, cache_vars, conv,
                   run_count>>

(* temp_box.run(self, &mut changes) *)
RunTempBox ==
    /\ popped # None
    /\ ~popped.value.ran
    /\ \E ord \in Orders :
          LET r == run(Env, popped.value.temp_box.value, popped.value.changes.value, ord)
          IN /\ r.env.next_vertex_id <= IdLimit
             /\ popped' = Some([popped.value EXCEPT !.temp_box = Some(r.bx),
                                                    !.changes = Some(r.changes),
                                                    !.ran = TRUE])
             /\ vertices' = r.env.vertices
             /\ sources' = r.env.sources
             /\ next_vertex_id' = r.env.next_vertex_id
             /\ type_errors' = r.env.type_errors
    /\ run_count' = counted(run_count, popped.value.box_id)
    /\ UNCHANGED <<boxes, next_box_id, run_queue, run_queue_set, methods, changes, pc,
                   source_edges, scope_vars, walk_vars, cache_vars, conv>>

(* temp_box dropped at the end of the iteration instead of inserted *)
InsertTempBox_dropped ==
    /\ popped # None
    /\ popped.value.ran
    /\ popped.value.temp_box # None
    /\ boxes' = boxes
    /\ popped' = Some([popped.value EXCEPT !.temp_box = None])
    /\ UNCHANGED <<vertices, sources, next_vertex_id, next_box_id, run_queue,
                   run_queue_set, methods, type_errors, changes, pc, source_edges,
                   scope_vars, walk_vars, cache_vars, conv, run_count>>

(* self.boxes.insert(box_id, temp_box) *)
InsertTempBox ==
    /\ popped # None
    /\ popped.value.ran
    /\ popped.value.temp_box # None
    /\ boxes' = Extend(boxes, popped.value.box_id, popped.value.temp_box.value)
    /\ popped' = Some([popped.value EXCEPT !.temp_box = None])
    /\ UNCHANGED <<vertices, sources, next_vertex_id, next_box_id, run_queue,
                   run_queue_set, methods, type_errors, changes, pc, source_edges,
                   scope_vars, walk_vars, cache_vars, conv, run_count>>

(* self.apply_changes(changes), the last statement of the iteration *)
ApplyPoppedChanges ==
    /\ popped # None
    /\ popped.value.temp_box = None
    /\ \E ord \in Orders :
          LET g == apply_changes(Env, popped.value.changes.value, ord)
          IN /\ vertices' = g.vertices
             /\ sources' = g.sources
             /\ source_edges' =
                    source_edges \cup SourceEdges(g, AddedBy(popped.value.changes.value))
    /\ popped' = None
    /\ UNCHANGED <<next_vertex_id, boxes, next_box_id, run_queue, run_queue_set, methods,
                   type_errors, changes, pc, scope_vars, walk_vars, cache_vars, conv,
                   run_count>>

DrainNext ==
    \/ NewVertex
    \/ NewSource
    \/ AddEdge
    \/ InstallMethodCall
    \/ InstallBlockParameterTypeBox
    \/ Finish
    \/ PopFront
    \/ RunTempBox
    \/ InsertTempBox
    \/ ApplyPoppedChanges

DrainSpec == Init /\ [][DrainNext]_vars

(* A chain of two calls on a receiver of several types, recv.m1.m2: the  *)
(* receiver vertex takes each of its types from a Source of its own, the *)
(* two calls are installed, then finish commits and run_all drains.      *)
MaxReceiverTypes == 2
ReceiverTypes == {String, Array, array_of(Integer)}
Receivers ==
    {tys \in UNION {[1..n -> ReceiverTypes] : n \in 0..MaxReceiverTypes} :
        \A i \in 1..Len(tys) : \A j \in 1..Len(tys) : i # j => tys[i] # tys[j]}

RECURSIVE typed_by(_, _, _)
typed_by(genv, recv_vtx, tys) ==
    IF tys = <<>> THEN genv
    ELSE typed_by(add_edge(new_source(genv, Head(tys)), genv.next_vertex_id, recv_vtx,
                           "asc"),
                  recv_vtx, Tail(tys))

CallChain(ms, tys, m1, m2) ==
    LET genv == [vertices |-> <<>>, sources |-> <<>>, next_vertex_id |-> 0,
                 type_errors |-> <<>>, methods |-> ms]
        st == [genv |-> typed_by(new_vertex(genv), 0, tys), boxes |-> <<>>,
               next_box_id |-> 0, run_queue |-> <<>>, run_queue_set |-> {},
               lenv |-> <<>>, changes |-> ChangeSet_new, sm |-> ScopeManager_new,
               params |-> <<>>]
        first == install_method_call(st, 0, m1, None)
    IN install_method_call(first.st, first.vtx.value, m2, None).st

CallInit ==
    /\ methods \in Registries
    /\ \E tys \in Receivers, m1 \in Methods, m2 \in Methods :
          LET st == CallChain(methods, tys, m1, m2)
          IN /\ vertices = st.genv.vertices
             /\ sources = st.genv.sources
             /\ next_vertex_id = st.genv.next_vertex_id
             /\ type_errors = st.genv.type_errors
             /\ boxes = st.boxes
             /\ next_box_id = st.next_box_id
             /\ run_queue = st.run_queue
             /\ run_queue_set = st.run_queue_set
             /\ changes = st.changes
             /\ source_edges = {<<src, 0>> : src \in DOMAIN st.genv.sources}
    /\ pc = "install"
    /\ ScopeManagerInit
    /\ program = [source |-> <<>>, statements |-> <<>>]
    /\ stmt_index = 0
    /\ lenv = <<>>
    /\ param_log = <<>>
    /\ bundled_cache = None
    /\ user_cache = None
    /\ procs = <<>>
    /\ conv = None
    /\ popped = None
    /\ run_count = <<>>

CallNext ==
    \/ Finish
    \/ RunAllStep

CallSpec == CallInit /\ [][CallNext]_vars

(* the graph store with cycles: edges added directly, and back edges *)
CycleNext ==
    \/ NewVertex
    \/ NewSource
    \/ AddEdge
    \/ CloseCycle

CycleSpec == Init /\ [][CycleNext]_vars

(* run_all is a loop that runs to completion: while the queue holds a box, *)
(* the next iteration is taken and pops it                                 *)
RunAllIteration ==
    /\ pc = "drain"
    /\ run_queue # <<>>
    /\ run_queue' = pop_front(run_queue)
    /\ pc' = pc

LiveSpec == Spec /\ WF_<<run_queue, pc>>(RunAllIteration)

-----------------------------------------------------------------------------
(* The analysis of one file (FileChecker::check_file): the installer walks *)
(* the top-level statements, then finish commits and drains.               *)

AnalysisInit ==
    /\ vertices = <<>>
    /\ sources = <<>>
    /\ next_vertex_id = 0
    /\ boxes = <<>>
    /\ next_box_id = 0
    /\ run_queue = <<>>
    /\ run_queue_set = {}
    /\ methods = register_rbs_methods(<<>>, AnalysisSignatures)
    /\ type_errors = <<>>
    /\ changes = ChangeSet_new
    /\ pc = "install"
    /\ source_edges = {}
    /\ ScopeManagerInit
    /\ program \in Programs
    /\ stmt_index = 0
    /\ lenv = <<>>
    /\ param_log = <<>>
    /\ bundled_cache = None
    /\ user_cache = None
    /\ procs = <<>>
    /\ conv = None
    /\ popped = None
    /\ run_count = <<>>

(* the installer's view of the state *)
Installer ==
    [genv |-> Env, boxes |-> boxes, next_box_id |-> next_box_id,
     run_queue |-> run_queue, run_queue_set |-> run_queue_set, lenv |-> lenv,
     changes |-> changes, sm |-> ScopeManager, params |-> param_log]

(* installer.install_node(&stmt) for the next top-level statement *)
InstallStatement ==
    /\ pc = "install"
    /\ stmt_index < Len(program.statements)
    /\ \E ord \in Orders :
          LET st == install_node(Installer, program.statements[stmt_index + 1],
                                 program.source, ord).st
          IN /\ vertices' = st.genv.vertices
             /\ sources' = st.genv.sources
             /\ next_vertex_id' = st.genv.next_vertex_id
             /\ type_errors' = st.genv.type_errors
             /\ boxes' = st.boxes
             /\ next_box_id' = st.next_box_id
             /\ run_queue' = st.run_queue
             /\ run_queue_set' = st.run_queue_set
             /\ lenv' = st.lenv
             /\ param_log' = st.params
             /\ changes' = st.changes
             /\ scopes' = st.sm.scopes
             /\ scope_next_id' = st.sm.next_id
             /\ current_scope' = st.sm.current_scope
    /\ stmt_index' = stmt_index + 1
    /\ UNCHANGED <<methods, pc, source_edges, ivar_next_vtx, ivar_writer, last_read,
                   program, cache_vars, conv, popped, run_count>>

AnalysisNext ==
    \/ InstallStatement
    \/ Finish
    \/ RunAllStep

AnalysisSpec == AnalysisInit /\ [][AnalysisNext]_vars

-----------------------------------------------------------------------------
(* Operations of the scope manager, as the installer issues them *)

SetScopeManager(sm) ==
    /\ scopes' = sm.scopes
    /\ scope_next_id' = sm.next_id
    /\ current_scope' = sm.current_scope

(* install_class: genv.enter_class(name); a method body holds no class definition *)
EnterClass ==
    /\ scope_next_id < MaxScopes
    /\ ~InsideMethod(ScopeManager, Some(current_scope))
    /\ \E name \in ClassNames : SetScopeManager(enter_class(ScopeManager, name))
    /\ last_read' = None
    /\ UNCHANGED <<graph_vars, aux_vars, ivar_next_vtx, ivar_writer>>

(* a module frame is pushed: new_scope(ScopeKind::Module { name }), enter_scope *)
EnterModule ==
    /\ scope_next_id < MaxScopes
    /\ ~InsideMethod(ScopeManager, Some(current_scope))
    /\ \E name \in ModuleNames :
          LET r == new_scope(ScopeManager, Module(name))
          IN SetScopeManager(enter_scope(r.sm, r.id))
    /\ last_read' = None
    /\ UNCHANGED <<graph_vars, aux_vars, ivar_next_vtx, ivar_writer>>

(* install_method: genv.enter_method(name) *)
EnterMethod ==
    /\ scope_next_id < MaxScopes
    /\ \E name \in MethodNames : SetScopeManager(enter_method(ScopeManager, name))
    /\ last_read' = None
    /\ UNCHANGED <<graph_vars, aux_vars, ivar_next_vtx, ivar_writer>>

(* enter_block_scope *)
EnterBlock ==
    /\ scope_next_id < MaxScopes
    /\ SetScopeManager(enter_block_scope(ScopeManager))
    /\ last_read' = None
    /\ UNCHANGED <<graph_vars, aux_vars, ivar_next_vtx, ivar_writer>>

(* exit_scope / exit_block_scope: a frame is left *)
ExitScope ==
    /\ scopes[current_scope].parent # None
    /\ SetScopeManager(exit_scope(ScopeManager))
    /\ last_read' = None
    /\ UNCHANGED <<graph_vars, aux_vars, ivar_next_vtx, ivar_writer>>

(* @name = value: the value's vertex is fresh *)
IvarWrite ==
    /\ ivar_next_vtx < MaxIvarWrites
    /\ \E ivar_name \in IvarNames :
          LET value_vtx == ivar_next_vtx
          IN /\ SetScopeManager(install_ivar_write(ScopeManager, ivar_name, value_vtx))
             /\ ivar_writer' =
                    Extend(ivar_writer, value_vtx,
                           [frame |-> EnclosingFrame(ScopeManager, Some(current_scope)),
                            in_method |-> InsideMethod(ScopeManager, Some(current_scope))])
    /\ ivar_next_vtx' = ivar_next_vtx + 1
    /\ last_read' = None
    /\ UNCHANGED <<graph_vars, aux_vars>>

(* @name: the read and what it returned *)
IvarRead ==
    /\ \E ivar_name \in IvarNames :
          last_read' =
              Some([name |-> ivar_name,
                    result |-> install_ivar_read(ScopeManager, ivar_name),
                    frame |-> EnclosingFrame(ScopeManager, Some(current_scope))])
    /\ UNCHANGED <<graph_vars, aux_vars, scopes, scope_next_id, current_scope, ivar_next_vtx,
                   ivar_writer>>

(* a `self` node is installed in the current frame *)
InstallSelf ==
    /\ next_vertex_id < MaxSelf
    /\ sources' = install_self(Env, ScopeManager).sources
    /\ next_vertex_id' = install_self(Env, ScopeManager).next_vertex_id
    /\ last_read' = None
    /\ UNCHANGED <<vertices, boxes, next_box_id, run_queue, run_queue_set, methods,
                   type_errors, changes, pc, source_edges, scopes, scope_next_id,
                   current_scope, ivar_next_vtx, ivar_writer, aux_vars>>

ScopeNext ==
    \/ EnterClass
    \/ EnterModule
    \/ EnterMethod
    \/ EnterBlock
    \/ ExitScope
    \/ IvarWrite
    \/ IvarRead

ScopeSpec == Init /\ [][ScopeNext]_vars

(* the frames alone, and `self` nodes installed in them *)
SelfNext ==
    \/ EnterClass
    \/ EnterModule
    \/ EnterMethod
    \/ EnterBlock
    \/ ExitScope
    \/ InstallSelf

SelfSpec == Init /\ [][SelfNext]_vars

-----------------------------------------------------------------------------
(* Well-formedness of the model's own bookkeeping *)

HeldTypes ==
    {sources[s] : s \in DOMAIN sources}
        \cup UNION {DOMAIN vertices[v].types : v \in DOMAIN vertices}

RankingCovers ==
    /\ HeldTypes \subseteq Range(TypeRanking)
    /\ next_vertex_id <= IdLimit
    /\ (pc = "drain" /\ run_queue # <<>>) =>
          \A ord \in Orders :
              run(Env, boxes[Head(run_queue)], ChangeSet_new, ord).env.next_vertex_id
                  <= IdLimit

Drained == pc = "drain" /\ run_queue = <<>>

(* the types of a named local *)
LocalTypes(name) ==
    IF name \notin DOMAIN lenv THEN {}
    ELSE IF lenv[name] \in DOMAIN vertices THEN DOMAIN vertices[lenv[name]].types
    ELSE {}

Analysed(p) == program = p /\ Drained

-----------------------------------------------------------------------------
(* Printed forms (types.rs) and diagnostics (checker.rs)                   *)
(*                                                                         *)
(* A string is held as the sequence of its pieces between occurrences of   *)
(* the separator " | ": "Integer | String" is <<"Integer", "String">>, a   *)
(* string without the separator is a sequence of one piece.                *)

(* string concatenation: the last piece of a runs into the first piece of b *)
concat(a, b) ==
    SubSeq(a, 1, Len(a) - 1) \o <<a[Len(a)] \o b[1]>> \o SubSeq(b, 2, Len(b))

(* names.join(sep) for a separator without " | " in it *)
RECURSIVE join(_, _)
join(names, sep) ==
    IF names = <<>> THEN <<"">>
    ELSE IF Len(names) = 1 THEN names[1]
    ELSE concat(concat(names[1], <<sep>>), join(Tail(names), sep))

(* names.join(" | ") *)
RECURSIVE join_union(_)
join_union(names) ==
    IF names = <<>> THEN <<"">>
    ELSE IF Len(names) = 1 THEN names[1]
    ELSE names[1] \o join_union(Tail(names))

RECURSIVE show(_)
show(t) ==
    CASE t.tag = "Instance" -> <<t.name>>
      [] t.tag = "Generic" ->
            concat(concat(<<t.name \o "[">>,
                          join([i \in 1..Len(t.type_args) |-> show(t.type_args[i])], ", ")),
                   <<"]">>)
      [] t.tag = "Nil" -> <<"nil">>
      [] t.tag = "Union" ->
            join_union([i \in 1..Len(t.type_args) |-> show(t.type_args[i])])
      [] t.tag = "Bot" -> <<"untyped">>

(* the backquotes around the method name are written as apostrophes *)
undefined_method(location, receiver_type, method_name) ==
    [location |-> location,
     level |-> "Error",
     message |-> concat(<<"undefined method '" \o method_name \o "' for ">>, receiver_type)]

collect_diagnostics(errors) ==
    [i \in 1..Len(errors) |->
        LET type_error == errors[i]
            location ==
                IF type_error.location # None
                THEN [line |-> type_error.location.value.line,
                      column |-> type_error.location.value.column,
                      length |-> Some(type_error.location.value.length)]
                ELSE [line |-> 1, column |-> 1, length |-> None]
        IN undefined_method(location, show(type_error.receiver_type),
                            type_error.method_name)]

-----------------------------------------------------------------------------
(* Signature cache (cache/rbs_cache.rs, rbs/loader.rs, checker.rs)         *)
(*                                                                         *)
(* The bytes of a cache file are a sequence of chunks, one write each: the *)
(* two version strings, then the methods. The timestamp is read by no      *)
(* operation and is left out.                                              *)

CARGO_PKG_VERSION == "0.1.0"
ToolVersions == {"0.0.9", CARGO_PKG_VERSION}
RbsVersions == {"3.4", "3.5"}
Procs == 1..MaxProcs

Ok(x) == [tag |-> "Ok", value |-> x]
Err(e) == [tag |-> "Err", error |-> e]

RbsMethodInfo(receiver_class, method_name, return_type, block_param_types) ==
    [receiver_class |-> receiver_class, method_name |-> method_name,
     return_type |-> return_type, block_param_types |-> block_param_types]

(* RbsLoader::load_methods: the signatures of the RBS gem that is installed *)
load_methods(rbs_version) ==
    IF rbs_version = "3.4"
    THEN << RbsMethodInfo("String", "upcase", String, None) >>
    ELSE << RbsMethodInfo("String", "upcase", String, None),
            RbsMethodInfo("Integer", "to_s", String, None) >>

RbsCache(version, rbs_version, cached_methods) ==
    [version |-> version, rbs_version |-> rbs_version, methods |-> cached_methods]

(* a printed form as one string, its pieces joined by " | " again *)
RECURSIVE as_str(_)
as_str(pieces) ==
    IF Len(pieces) = 1 THEN pieces[1]
    ELSE pieces[1] \o " | " \o as_str(Tail(pieces))

(* SerializableMethodInfo::return_type *)
return_type(m) == Instance(as_str(m.return_type_str))

(* RbsCache::from_method_infos *)
from_method_infos(infos, version, rbs_version) ==
    RbsCache(version, rbs_version,
             [i \in 1..Len(infos) |->
                 SignatureRecord(infos[i].receiver_class, infos[i].method_name,
                                 show(infos[i].return_type), infos[i].block_param_types)])

(* RbsCache::to_method_infos *)
to_method_infos(cache) ==
    [i \in 1..Len(cache.methods) |->
        RbsMethodInfo(cache.methods[i].receiver_class, cache.methods[i].method_name,
                      parse(cache.methods[i].return_type_str),
                      cache.methods[i].block_param_types)]

(* RbsCache::is_valid *)
is_valid(cache, current_version, current_rbs_version) ==
    cache.version = current_version /\ cache.rbs_version = current_rbs_version

(* bincode::serialize, bincode::deserialize *)
Zeroes == [chunk |-> "zeroes"]
serialize(cache) ==
    << [chunk |-> "versions", version |-> cache.version,
        rbs_version |-> cache.rbs_version],
       [chunk |-> "methods", methods |-> cache.methods] >>
deserialize(bytes) ==
    IF /\ Len(bytes) = 2
       /\ bytes[1].chunk = "versions"
       /\ bytes[2].chunk = "methods"
    THEN Ok(RbsCache(bytes[1].version, bytes[1].rbs_version, bytes[2].methods))
    ELSE Err("Failed to deserialize cache")

(* RbsCache::load: the bundled file if it reads and deserializes, else the *)
(* user's file                                                             *)
load(bundled, user) ==
    IF bundled # None /\ deserialize(bundled.value).tag = "Ok"
    THEN deserialize(bundled.value)
    ELSE IF user = None THEN Err("Failed to read cache")
    ELSE deserialize(user.value)

(* whether RbsCache::load reads the user's file *)
reads_user_cache(bundled) ==
    ~(bundled # None /\ deserialize(bundled.value).tag = "Ok")

(* a write of one chunk at a file offset; a gap before it reads as zeroes *)
write_at(bytes, offset, chunk) ==
    [i \in 1..(IF Len(bytes) > offset THEN Len(bytes) ELSE offset + 1) |->
        IF i = offset + 1 THEN chunk
        ELSE IF i <= Len(bytes) THEN bytes[i]
        ELSE Zeroes]

(* register_rbs_methods: the registration loop over the method infos *)
RECURSIVE register_method_infos(_, _)
register_method_infos(ms, infos) ==
    IF infos = <<>> THEN ms
    ELSE LET m == Head(infos)
             block_param_types ==
                 IF m.block_param_types = None THEN None
                 ELSE Some(MapSeq(m.block_param_types.value, parse))
         IN register_method_infos(
                register_with_block(ms, Instance(m.receiver_class), m.method_name,
                                    m.return_type, block_param_types),
                Tail(infos))

(* load_rbs_from_cache: the registration loop over the cached records *)
RECURSIVE register_cached_methods(_, _)
register_cached_methods(ms, records) ==
    IF records = <<>> THEN ms
    ELSE LET m == Head(records)
         IN register_cached_methods(
                register_with_block(ms, Instance(m.receiver_class), m.method_name,
                                    return_type(m), None),
                Tail(records))

(* the files one earlier save leaves behind *)
WholeFiles ==
    {serialize(from_method_infos(load_methods(rv), v, rv)) :
        v \in ToolVersions, rv \in RbsVersions}

Process(path, rbs_version) ==
    [path |-> path,                  \* "ffi" | "cli"
     rbs_version |-> rbs_version,    \* RBS::VERSION of the Ruby the process runs in
     pc |-> IF path = "ffi" THEN "register_rbs_methods" ELSE "new",
     cache |-> None,                 \* the cache loaded or built
     seen |-> None,                  \* Some(content) of the user's file at its last read
     offset |-> 0,                   \* the file position of the save under way
     registry |-> None,              \* Some(methods) once the registry is populated
     from |-> "none",                \* "cache" | "rbs": where the registry came from
     result |-> None]                \* Some(Ok / Err) once the entry point returned

CacheInit ==
    /\ vertices = <<>>
    /\ sources = <<>>
    /\ next_vertex_id = 0
    /\ boxes = <<>>
    /\ next_box_id = 0
    /\ run_queue = <<>>
    /\ run_queue_set = {}
    /\ methods = <<>>
    /\ type_errors = <<>>
    /\ changes = ChangeSet_new
    /\ pc = "install"
    /\ source_edges = {}
    /\ ScopeManagerInit
    /\ program = [source |-> <<>>, statements |-> <<>>]
    /\ stmt_index = 0
    /\ lenv = <<>>
    /\ param_log = <<>>
    /\ bundled_cache \in {None, Some(<<>>)} \cup {Some(f) : f \in WholeFiles}
    /\ user_cache \in {None} \cup {Some(f) : f \in WholeFiles}
    /\ procs \in [Procs -> {Process(path, rv) : path \in {"ffi", "cli"},
                                                 rv \in RbsVersions}]
    /\ conv = None
    /\ popped = None
    /\ run_count = <<>>

(* the user's file as a load of process p sees it, if the load reads it *)
Seen(p) ==
    IF reads_user_cache(bundled_cache) THEN Some(user_cache) ELSE procs[p].seen

(* FileChecker::new *)
FileCheckerNew(p) ==
    /\ procs[p].path = "cli"
    /\ procs[p].pc = "new"
    /\ LET loaded == load(bundled_cache, user_cache)
       IN procs' = [procs EXCEPT ![p] =
              IF loaded.tag = "Err"
              THEN [@ EXCEPT !.seen = Seen(p), !.pc = "done",
                             !.result = Some(Err("Failed to load RBS cache"))]
              ELSE [@ EXCEPT !.seen = Seen(p), !.pc = "check_file"]]
    /\ UNCHANGED <<graph_vars, scope_vars, walk_vars, conv, popped, run_count, bundled_cache, user_cache>>

(* FileChecker::check_file up to the end of load_rbs_from_cache *)
CheckFile(p) ==
    /\ procs[p].path = "cli"
    /\ procs[p].pc = "check_file"
    /\ LET loaded == load(bundled_cache, user_cache)
       IN procs' = [procs EXCEPT ![p] =
              IF loaded.tag = "Err"
              THEN [@ EXCEPT !.seen = Seen(p), !.pc = "done",
                             !.result = Some(Err("Failed to load RBS cache"))]
              ELSE [@ EXCEPT !.seen = Seen(p), !.pc = "done",
                             !.cache = Some(loaded.value),
                             !.registry =
                                 Some(register_cached_methods(<<>>, loaded.value.methods)),
                             !.from = "cache",
                             !.result = Some(Ok("diagnostics"))]]
    /\ UNCHANGED <<graph_vars, scope_vars, walk_vars, conv, popped, run_count, bundled_cache, user_cache>>

(* register_rbs_methods up to the choice between the cache and the RBS gem *)
RegisterRbsMethods(p) ==
    /\ procs[p].path = "ffi"
    /\ procs[p].pc = "register_rbs_methods"
    /\ LET loaded == load(bundled_cache, user_cache)
       IN procs' = [procs EXCEPT ![p] =
              IF loaded.tag = "Ok"
                 /\ is_valid(loaded.value, CARGO_PKG_VERSION, procs[p].rbs_version)
              THEN [@ EXCEPT !.seen = Seen(p), !.pc = "done",
                             !.cache = Some(loaded.value),
                             !.registry =
                                 Some(register_method_infos(
                                          <<>>, to_method_infos(loaded.value))),
                             !.from = "cache",
                             !.result = Some(Ok(Len(loaded.value.methods)))]
              ELSE [@ EXCEPT !.seen = Seen(p),
                             !.pc = "load_and_cache_rbs_methods"]]
    /\ UNCHANGED <<graph_vars, scope_vars, walk_vars, conv, popped, run_count, bundled_cache, user_cache>>

(* load_and_cache_rbs_methods up to cache.save(): the RBS gem may fail to load *)
LoadAndCacheRbsMethods(p) ==
    /\ procs[p].pc = "load_and_cache_rbs_methods"
    /\ \E loads \in BOOLEAN :
          procs' = [procs EXCEPT ![p] =
              IF loads
              THEN [@ EXCEPT !.pc = "save",
                             !.cache = Some(from_method_infos(
                                                load_methods(procs[p].rbs_version),
                                                CARGO_PKG_VERSION, procs[p].rbs_version))]
              ELSE [@ EXCEPT !.pc = "done",
                             !.result = Some(Err("RbsNotInstalled"))]]
    /\ UNCHANGED <<graph_vars, scope_vars, walk_vars, conv, popped, run_count, bundled_cache, user_cache>>

(* RbsCache::save, fs::write: the file is created or truncated; when that *)
(* fails the save is skipped with a warning                                *)
SaveCreate(p) ==
    /\ procs[p].pc = "save"
    /\ \E created \in BOOLEAN :
          IF created
          THEN /\ user_cache' = Some(<<>>)
               /\ procs' = [procs EXCEPT ![p].pc = "write", ![p].offset = 0]
          ELSE /\ UNCHANGED user_cache
               /\ procs' = [procs EXCEPT ![p].pc = "register"]
    /\ UNCHANGED <<graph_vars, scope_vars, walk_vars, conv, popped, run_count, bundled_cache>>

(* RbsCache::save, fs::write: the next chunk is written at the position of *)
(* this writer                                                             *)
SaveWrite(p) ==
    /\ procs[p].pc = "write"
    /\ LET bytes == serialize(procs[p].cache.value)
           offset == procs[p].offset
       IN /\ user_cache' =
                 Some(write_at(IF user_cache = None THEN <<>> ELSE user_cache.value,
                               offset, bytes[offset + 1]))
          /\ procs' = [procs EXCEPT
                 ![p].offset = offset + 1,
                 ![p].pc = IF offset + 1 = Len(bytes) THEN "register" ELSE "write"]
    /\ UNCHANGED <<graph_vars, scope_vars, walk_vars, conv, popped, run_count, bundled_cache>>

(* register_rbs_methods: the regenerated methods are registered *)
RegisterRegenerated(p) ==
    /\ procs[p].pc = "register"
    /\ procs' = [procs EXCEPT
           ![p].registry = Some(register_method_infos(
                                    <<>>, load_methods(procs[p].rbs_version))),
           ![p].from = "rbs",
           ![p].pc = "done",
           ![p].result = Some(Ok(Len(load_methods(procs[p].rbs_version))))]
    /\ UNCHANGED <<graph_vars, scope_vars, walk_vars, conv, popped, run_count, bundled_cache, user_cache>>

CacheNext ==
    \E p \in Procs :
        \/ FileCheckerNew(p)
        \/ CheckFile(p)
        \/ RegisterRbsMethods(p)
        \/ LoadAndCacheRbsMethods(p)
        \/ SaveCreate(p)
        \/ SaveWrite(p)
        \/ RegisterRegenerated(p)

CacheSpec == CacheInit /\ [][CacheNext]_vars

-----------------------------------------------------------------------------
(* Conversions and comparisons of types (types.rs, rbs/converter.rs,       *)
(* cache/rbs_cache.rs), applied to the types of a bounded depth            *)

BaseTypes == {String, Integer, Nil, Bot}

(* the argument lists of one or two members *)
Args(S) == {<<a>> : a \in S} \cup {<<a, b>> : a \in S, b \in S}

RECURSIVE TypesOfDepth(_)
TypesOfDepth(d) ==
    IF d = 0 THEN BaseTypes
    ELSE LET S == TypesOfDepth(d - 1)
         IN S \cup {Generic(IF Len(as) = 1 THEN "Array" ELSE "Hash", as) : as \in Args(S)}
              \cup {Union(as) : as \in Args(S)}

Types == TypesOfDepth(MaxDepth)

(* the same type with the members of every union in the opposite order *)
RECURSIVE Reordered(_)
Reordered(t) ==
    CASE t.tag = "Union" ->
            Union(Reverse([i \in 1..Len(t.type_args) |-> Reordered(t.type_args[i])]))
      [] t.tag = "Generic" ->
            Generic(t.name, [i \in 1..Len(t.type_args) |-> Reordered(t.type_args[i])])
      [] OTHER -> t

(* #[derive(PartialEq, Eq, Hash)] on Type: variants and fields are compared *)
(* one by one, the members of a Vec in their order                          *)
RECURSIVE eq(_, _)
eq(a, b) ==
    /\ a.tag = b.tag
    /\ a.name = b.name
    /\ Len(a.type_args) = Len(b.type_args)
    /\ \A i \in 1..Len(a.type_args) : eq(a.type_args[i], b.type_args[i])

(* printed types of RBS signatures: bool | Integer, String | String, *)
(* String | Integer, bool, ::String | nil, Integer                      *)
RbsTexts ==
    {<<"bool", "Integer">>, <<"String", "String">>, <<"String", "Integer">>,
     <<"bool">>, <<"::String", "nil">>, <<"Integer">>}

ConvInit ==
    /\ vertices = <<>>
    /\ sources = <<>>
    /\ next_vertex_id = 0
    /\ boxes = <<>>
    /\ next_box_id = 0
    /\ run_queue = <<>>
    /\ run_queue_set = {}
    /\ methods = <<>>
    /\ type_errors = <<>>
    /\ changes = ChangeSet_new
    /\ pc = "install"
    /\ source_edges = {}
    /\ ScopeManagerInit
    /\ program = [source |-> <<>>, statements |-> <<>>]
    /\ stmt_index = 0
    /\ lenv = <<>>
    /\ param_log = <<>>
    /\ bundled_cache = None
    /\ user_cache = None
    /\ procs = <<>>
    /\ \E t \in Types : \E u \in {t, Reordered(t)} :
          conv = Some([type |-> t, other |-> u, stage |-> "type", value |-> None])
    /\ popped = None
    /\ run_count = <<>>

Convert(from, to, value) ==
    /\ conv # None
    /\ conv.value.stage = from
    /\ conv' = Some([conv.value EXCEPT !.stage = to, !.value = value])
    /\ UNCHANGED <<graph_vars, scope_vars, walk_vars, cache_vars, popped, run_count>>

(* t.show() *)
Show == Convert("type", "printed", show(conv.value.type))

(* RbsTypeConverter::parse of the printed form *)
Parse == Convert("printed", "parsed", parse(conv.value.value))

(* RbsTypeConverter::parse of a type as an RBS signature prints it *)
ParseRbs ==
    \E rbs_type \in RbsTexts :
        Convert("type", "rbs_parsed", [rbs_type |-> rbs_type, type |-> parse(rbs_type)])

(* RbsCache::from_method_infos of one method that returns the type *)
FromMethodInfos ==
    Convert("type", "cached",
            from_method_infos(<<RbsMethodInfo("Object", "m", conv.value.type, None)>>,
                              CARGO_PKG_VERSION, "3.4"))

(* RbsCache::to_method_infos, the FFI path *)
ToMethodInfos ==
    Convert("cached", "to_method_infos", to_method_infos(conv.value.value)[1].return_type)

(* SerializableMethodInfo::return_type, the CLI path *)
ReturnType ==
    Convert("cached", "return_type", return_type(conv.value.value.methods[1]))

(* MethodRegistry::register_with_block for the type and for its reordering *)
RegisterBoth ==
    Convert("type", "registered",
            register_with_block(
                register_with_block(<<>>, conv.value.type, "m", String, None),
                conv.value.other, "m", Integer, None))

(* Vertex::on_type_added for the type and for its reordering *)
AddBoth ==
    Convert("type", "held",
            on_type_added(
                on_type_added(Vertex_new, 0, <<conv.value.type>>, "asc").vtx,
                1, <<conv.value.other>>, "asc").vtx)

(* t == u *)
Compare == Convert("type", "compared", eq(conv.value.type, conv.value.other))

ConvNext ==
    \/ Compare
    \/ Show
    \/ Parse
    \/ ParseRbs
    \/ FromMethodInfos
    \/ ToMethodInfos
    \/ ReturnType
    \/ RegisterBoth
    \/ AddBoth

ConvSpec == ConvInit /\ [][ConvNext]_vars

-----------------------------------------------------------------------------
(* A whole analysis as one function (checker.rs check_file), every hash    *)
(* iteration of the run taking the order ord                               *)

RECURSIVE install_program(_, _, _, _)
install_program(st, p, i, ord) ==
    IF i > Len(p.statements) THEN st
    ELSE install_program(install_node(st, p.statements[i], p.source, ord).st,
                         p, i + 1, ord)

(* GlobalEnv::run_all from a given queue *)
RECURSIVE run_all(_, _, _, _)
run_all(env, bxs, queue, ord) ==
    IF queue = <<>> THEN env
    ELSE LET box_id == Head(queue)
             r == run(env, bxs[box_id], ChangeSet_new, ord)
         IN IF box_id \in DOMAIN bxs
            THEN run_all(apply_changes(r.env, r.changes, ord),
                         [bxs EXCEPT ![box_id] = r.bx], pop_front(queue), ord)
            ELSE run_all(env, bxs, pop_front(queue), ord)

check_file(p, ord) ==
    LET genv == [vertices |-> <<>>, sources |-> <<>>, next_vertex_id |-> 0,
                 type_errors |-> <<>>,
                 methods |-> register_rbs_methods(<<>>, AnalysisSignatures)]
        st == install_program(
                  [genv |-> genv, boxes |-> <<>>, next_box_id |-> 0,
                   run_queue |-> <<>>, run_queue_set |-> {}, lenv |-> <<>>,
                   changes |-> ChangeSet_new,
                   sm |-> ScopeManager_new, params |-> <<>>],
                  p, 1, ord)
        env == run_all(apply_changes(st.genv, st.changes, ord), st.boxes,
                       st.run_queue, ord)
    IN [lenv |-> st.lenv, genv |-> env,
        diagnostics |-> collect_diagnostics(env.type_errors)]

-----------------------------------------------------------------------------
(* Properties *)

(* C1: across add_edge, apply_changes (also of a change-set whose commit  *)
(* yields Remove updates) and the box runs of run_all, every Vertex stays *)
(* in the arena and its type set only grows.                              *)
C1_TypesOnlyGrow ==
    [][\A v \in DOMAIN vertices :
          /\ v \in DOMAIN vertices'
          /\ DOMAIN vertices[v].types \subseteq DOMAIN vertices'[v].types]_vars

(* the drain has ended and the run of a method-call box has typed its result *)
C1_Witness ==
    /\ Drained
    /\ \E b \in DOMAIN boxes :
          /\ boxes[b].kind = "MethodCall"
          /\ vertices[boxes[b].ret].types # <<>>

(* C2: run_all terminates with the queue empty, whatever finite set of    *)
(* method-call and block-parameter boxes over whatever finite graph was   *)
(* installed, cycles and never-typed receivers included.                  *)
C2_RunAllTerminates == (pc = "drain") ~> Drained

(* the queue drained although a box's receiver, on a cycle, never got a type *)
C2_Witness ==
    /\ Drained
    /\ \E b \in DOMAIN boxes :
          /\ boxes[b].reschedule_count > 0
          /\ boxes[b].recv \in DOMAIN vertices
          /\ boxes[b].recv \in vertices[boxes[b].recv].next_vtxs

(* C3: every recorded undefined-method error (t, m) comes from a          *)
(* method-call box for m whose receiver holds t, and the registry has no  *)
(* entry for (t, m) nor, when t is Generic(name, args), for               *)
(* (Instance(name), m).                                                   *)
C3_ErrorsAreGenuine ==
    \A i \in 1..Len(type_errors) :
        LET t == type_errors[i].receiver_type
            m == type_errors[i].method_name
        IN /\ \E b \in DOMAIN boxes :
                 /\ boxes[b].kind = "MethodCall"
                 /\ boxes[b].method_name = m
                 /\ \/ /\ boxes[b].recv \in DOMAIN vertices
                       /\ t \in DOMAIN vertices[boxes[b].recv].types
                    \/ /\ boxes[b].recv \in DOMAIN sources
                       /\ t = sources[boxes[b].recv]
           /\ <<t, m>> \notin DOMAIN methods
           /\ t.tag = "Generic" => <<Instance(t.name), m>> \notin DOMAIN methods

(* C4: no undefined-method error is recorded with the receiver Bot,       *)
(* neither for an empty receiver nor when Bot reached the receiver as a   *)
(* declared return type printed `untyped`.                                *)
C4_NoErrorOnBot ==
    \A i \in 1..Len(type_errors) : type_errors[i].receiver_type # Bot

(* C5: when the drain has ended, for every method-call box (for m) and    *)
(* every type t in its receiver's final type set that resolution does not *)
(* answer, an error (t, m) is recorded.                                   *)
C5_ErrorsAreComplete ==
    Drained =>
        \A b \in DOMAIN boxes :
            boxes[b].kind = "MethodCall" /\ boxes[b].recv \in DOMAIN vertices =>
                \A t \in DOMAIN vertices[boxes[b].recv].types :
                    MethodRegistry_resolve(methods, t, boxes[b].method_name) = None =>
                        \E i \in 1..Len(type_errors) :
                            /\ type_errors[i].receiver_type = t
                            /\ type_errors[i].method_name = boxes[b].method_name

(* C6: add_edge(src, dst) issued twice leaves the graph as issuing it     *)
(* once does (types, provenance, successors), and the second call         *)
(* propagates nothing.                                                    *)
C6_AddEdgeIdempotent ==
    \A src \in Allocated, dst \in Allocated, ord \in Orders :
        LET once == add_edge(Env, src, dst, ord)
            twice == add_edge(once, src, dst, ord)
            types == types_of(once, src, ord)
        IN /\ twice = once
           /\ (types # None /\ dst \in DOMAIN once.vertices) =>
                  on_type_added(once.vertices[dst], src, types.value, ord).props = <<>>

(* an edge into a vertex that has successors was added from a typed origin *)
C6_Witness ==
    \E u \in DOMAIN vertices, v \in DOMAIN vertices :
        /\ v \in vertices[u].next_vtxs
        /\ vertices[v].next_vtxs # {}
        /\ vertices[u].types # <<>>

(* C7: the type of a Source never changes; add_edge and propagation into  *)
(* a Source leave it as it is.                                            *)
C7_SourcesAreFixed ==
    [][\A s \in DOMAIN sources :
          s \in DOMAIN sources' /\ sources'[s] = sources[s]]_vars

(* a Source is the successor of a vertex holding another type *)
C7_Witness ==
    \E v \in DOMAIN vertices, s \in DOMAIN sources :
        /\ s \in vertices[v].next_vtxs
        /\ DOMAIN vertices[v].types \ {sources[s]} # {}

(* C8: after every completed add_edge or apply_changes the graph is       *)
(* forward-closed: a successor edge u -> v into a Vertex v has            *)
(* types(u) within types(v), and an edge from a Source s into a Vertex v  *)
(* has the type of s in types(v); chains and cycles included.             *)
C8_ForwardClosed ==
    /\ \A u \in DOMAIN vertices :
          \A v \in vertices[u].next_vtxs \cap DOMAIN vertices :
              DOMAIN vertices[u].types \subseteq DOMAIN vertices[v].types
    /\ \A e \in source_edges :
          e[2] \in DOMAIN vertices => sources[e[1]] \in DOMAIN vertices[e[2]].types

(* a type has travelled from a Source along a chain into a cycle *)
C8_Witness ==
    \E e \in source_edges :
        \E v \in vertices[e[2]].next_vtxs \cap DOMAIN vertices :
            /\ v \in vertices[v].next_vtxs \/ e[2] \in vertices[v].next_vtxs
            /\ sources[e[1]] \in DOMAIN vertices[v].types

(* C9: resolution answers with the exact entry for (t, m), else for       *)
(* t = Generic(name, args) with the entry for (Instance(name), m), else   *)
(* with nothing; a call on Array[Integer] of a method registered for      *)
(* Array alone resolves and records no diagnostic.                        *)
C9_ResolutionFallsBack ==
    \A t \in HeldTypes, m \in Methods :
        LET exact == <<t, m>> \in DOMAIN methods
            base == t.tag = "Generic" /\ <<Instance(t.name), m>> \in DOMAIN methods
        IN /\ resolve_method(methods, t, m) =
                  IF exact THEN Some(methods[<<t, m>>])
                  ELSE IF base THEN Some(methods[<<Instance(t.name), m>>])
                  ELSE None
           /\ (exact \/ base) =>
                  \A i \in 1..Len(type_errors) :
                      ~(type_errors[i].receiver_type = t /\ type_errors[i].method_name = m)

(* C10: an instance variable written inside a method whose nearest        *)
(* enclosing class/module frame is F is returned only by reads whose      *)
(* nearest enclosing class/module frame is F.                             *)
C10_IvarFrameIsolation ==
    (last_read # None /\ last_read.value.result # None) =>
        LET w == ivar_writer[last_read.value.result.value]
        IN w.in_method => last_read.value.frame = w.frame

(* the names of the class and module frames enclosing a scope, outermost first *)
RECURSIVE EnclosingNames(_, _)
EnclosingNames(sm, current) ==
    IF current = None THEN <<>>
    ELSE LET scope == sm.scopes[current.value]
         IN EnclosingNames(sm, scope.parent)
                \o (IF scope.kind.tag \in {"Class", "Module"}
                    THEN <<scope.kind.name>> ELSE <<>>)

RECURSIVE JoinedNames(_)
JoinedNames(names) ==
    IF Len(names) = 1 THEN names[1]
    ELSE names[1] \o "::" \o JoinedNames(Tail(names))

(* C11: current_qualified_name is the names of all enclosing class and    *)
(* module frames, outermost first, joined by `::`, a name that holds `::` *)
(* kept as it is; install_self creates a Source of type Instance of that  *)
(* name, and Instance("Object") when no class or module frame encloses    *)
(* the current frame.                                                     *)
C11_QualifiedSelf ==
    /\ [](LET names == EnclosingNames(ScopeManager, Some(current_scope))
          IN current_qualified_name(ScopeManager) =
                 IF names = <<>> THEN None ELSE Some(JoinedNames(names)))
    /\ [][next_vertex_id' # next_vertex_id =>
             LET names == EnclosingNames(ScopeManager, Some(current_scope))
             IN /\ DOMAIN sources' = DOMAIN sources \cup {next_vertex_id}
                /\ sources'[next_vertex_id] =
                       IF names = <<>> THEN Instance("Object")
                       ELSE Instance(JoinedNames(names))]_vars

(* `self` was installed in a method of class V1::User nested in module M *)
C11_Witness ==
    /\ current_qualified_name(ScopeManager) = Some("M::V1::User")
    /\ scopes[current_scope].kind.tag = "Method"
    /\ \E s \in DOMAIN sources : sources[s] = Instance("M::V1::User")

(* C12: for `[1, 2, 3].each { |i| x = i.to_s }` the method-call box of    *)
(* the block body is enqueued before the block-parameter box, finds the   *)
(* receiver `i` empty and reschedules itself, runs again once `i` holds   *)
(* Integer, and the drain ends with x : String and no diagnostics.        *)
C12_BlockBodyResolved ==
    Analysed(BlockParameterProgram) =>
        /\ LocalTypes("x") = {String}
        /\ type_errors = <<>>

(* C13: for `x = 123; y = x.upcase` with no upcase registered for Integer *)
(* y ends with an empty type set, exactly one undefined-method error is   *)
(* recorded, its receiver is Integer, its method is upcase, and the       *)
(* highlight length of its diagnostic is 6.                               *)
C13_UndefinedMethodReport ==
    Analysed(UndefinedMethodProgram) =>
        /\ LocalTypes("y") = {}
        /\ Len(type_errors) = 1
        /\ type_errors[1].receiver_type = Integer
        /\ type_errors[1].method_name = "upcase"
        /\ collect_diagnostics(type_errors)[1].location.length = Some(6)

(* the multiset of the members of a sequence *)
BagOf(seq) ==
    [x \in Range(seq) |-> Cardinality({i \in 1..Len(seq) : seq[i] = x})]

(* C14: two runs of the analysis on the same source with the same         *)
(* registry give every named local the same type set and give the same    *)
(* multiset of diagnostics, whatever order the hash-based sets and maps   *)
(* are iterated in; the second run is the one that takes the ascending    *)
(* order everywhere.                                                      *)
C14_RunsAgree ==
    Drained =>
        LET second == check_file(program, "asc")
        IN /\ DOMAIN lenv = DOMAIN second.lenv
           /\ \A name \in DOMAIN lenv :
                  LocalTypes(name) =
                      IF second.lenv[name] \in DOMAIN second.genv.vertices
                      THEN DOMAIN second.genv.vertices[second.lenv[name]].types
                      ELSE {}
           /\ BagOf(collect_diagnostics(type_errors)) = BagOf(second.diagnostics)

(* the latest top-level assignment to a local before statement i, 0 if none *)
LatestWrite(p, i, name) ==
    LET js == {j \in 1..(i - 1) :
                  /\ p.statements[j].node = "LocalVariableWriteNode"
                  /\ p.statements[j].name = name}
    IN IF js = {} THEN 0 ELSE CHOOSE j \in js : \A k \in js : k <= j

IsLiteral(node) == node.node \in {"IntegerNode", "StringNode", "NilNode"}

(* an element that is a literal, or a read of a local whose latest earlier *)
(* assignment is a literal                                                *)
SimpleElement(p, i, e) ==
    \/ IsLiteral(e)
    \/ /\ e.node = "LocalVariableReadNode"
       /\ LatestWrite(p, i, e.name) # 0
       /\ IsLiteral(p.statements[LatestWrite(p, i, e.name)].value)

ElementType(p, i, e) ==
    IF IsLiteral(e) THEN install_literal(e).value
    ELSE install_literal(p.statements[LatestWrite(p, i, e.name)].value).value

(* t is the array type over the set S of element types, the members of a  *)
(* union taken in any order                                               *)
IsArrayOver(t, S) ==
    IF S = {} THEN t = Array
    ELSE IF Cardinality(S) = 1 THEN \E e \in S : t = array_of(e)
    ELSE /\ t.tag = "Generic"
         /\ t.name = "Array"
         /\ Len(t.type_args) = 1
         /\ t.type_args[1].tag = "Union"
         /\ Range(t.type_args[1].type_args) = S
         /\ Len(t.type_args[1].type_args) = Cardinality(S)

(* C15: a local assigned an array literal whose elements are literals or  *)
(* reads of locals assigned earlier holds exactly one type: Array when    *)
(* the literal is empty, Array[T] when the element types are the single   *)
(* type T, Array[T1 | T2 | ...] when they are several.                    *)
C15_ArrayLiteralType ==
    Drained =>
        \A i \in 1..Len(program.statements) :
            LET stmt == program.statements[i]
            IN (/\ stmt.node = "LocalVariableWriteNode"
                /\ stmt.value.node = "ArrayNode"
                /\ LatestWrite(program, Len(program.statements) + 1, stmt.name) = i
                /\ \A k \in 1..Len(stmt.value.elements) :
                       SimpleElement(program, i, stmt.value.elements[k]))
               => \E t \in LocalTypes(stmt.name) :
                      /\ LocalTypes(stmt.name) = {t}
                      /\ IsArrayOver(t, {ElementType(program, i, stmt.value.elements[k]) :
                                             k \in 1..Len(stmt.value.elements)})

(* C16: a registry is populated from a cached signature set only if the   *)
(* tool version and the RBS version of the cache both equal the current   *)
(* ones, on the FFI path and on the CLI path alike and whichever file     *)
(* RbsCache::load returned; on a mismatch the signatures are regenerated. *)
C16_OnlyValidCacheUsed ==
    \A p \in DOMAIN procs :
        /\ procs[p].from = "cache" =>
               is_valid(procs[p].cache.value, CARGO_PKG_VERSION, procs[p].rbs_version)
        /\ procs[p].from = "rbs" =>
               procs[p].registry =
                   Some(register_method_infos(<<>>, load_methods(procs[p].rbs_version)))

(* C17: while processes save the cache and others load it, every read of  *)
(* the user's rbs_cache.bin sees no file or the complete bytes of one     *)
(* single save.                                                           *)
C17_NoPartialRead ==
    \A p \in DOMAIN procs :
        procs[p].seen # None =>
            \/ procs[p].seen.value = None
            \/ procs[p].seen.value.value \in WholeFiles

(* C18: no entry point returns an error because the cache could not be    *)
(* read or deserialized; FileChecker::new and check_file proceed, and a   *)
(* failed write of the cache only skips the save.                         *)
C18_CacheFailureNotFatal ==
    \A p \in DOMAIN procs :
        procs[p].result # Some(Err("Failed to load RBS cache"))

(* C19: for every type t built from Instance, Generic, Nil, Bot and Union *)
(* of these, parse(show(t)) = t; a return type saved by from_method_infos *)
(* is read back unchanged by to_method_infos and by                       *)
(* SerializableMethodInfo::return_type.                                   *)
C19_ParseInvertsShow ==
    conv # None =>
        /\ conv.value.stage \in {"parsed", "to_method_infos", "return_type"} =>
               conv.value.value = conv.value.type

(* two types that differ at most in the order of the members of unions *)
RECURSIVE SameUpToOrder(_, _)
SameUpToOrder(a, b) ==
    /\ a.tag = b.tag
    /\ a.name = b.name
    /\ Len(a.type_args) = Len(b.type_args)
    /\ IF a.tag = "Union"
       THEN /\ \A i \in 1..Len(a.type_args) : \E j \in 1..Len(b.type_args) :
                   SameUpToOrder(a.type_args[i], b.type_args[j])
            /\ \A j \in 1..Len(b.type_args) : \E i \in 1..Len(a.type_args) :
                   SameUpToOrder(a.type_args[i], b.type_args[j])
       ELSE \A i \in 1..Len(a.type_args) : SameUpToOrder(a.type_args[i], b.type_args[i])

(* C20: equality and hashing of Type treat a Union as a set: two unions   *)
(* of the same members in a different order are equal, are one key of a   *)
(* vertex's type map and one key of the method registry.                  *)
C20_UnionIsASet ==
    (conv # None /\ SameUpToOrder(conv.value.type, conv.value.other)) =>
        /\ conv.value.stage = "compared" => conv.value.value
        /\ conv.value.stage = "registered" => Cardinality(DOMAIN conv.value.value) = 1
        /\ conv.value.stage = "held" => Cardinality(DOMAIN conv.value.value.types) = 1

(* the types a Vertex holds, or the one type of a Source *)
HeldBy(v) ==
    IF v \in DOMAIN vertices THEN DOMAIN vertices[v].types
    ELSE IF v \in DOMAIN sources THEN {sources[v]}
    ELSE {}

(* C21: the vertex of an optional parameter holds every type of the       *)
(* vertex of its default once the drain is over, and the type of a        *)
(* literal default as soon as the definition is installed; the vertex of  *)
(* a rest parameter holds exactly Array, that of a keyword-rest parameter *)
(* exactly Hash, that of a required parameter nothing; the definition of  *)
(* collect with the rest parameter items gives items : Array and no       *)
(* diagnostics.                                                           *)
C21_ParameterTypes ==
    /\ \A i \in 1..Len(param_log) :
          LET e == param_log[i]
          IN /\ e.kind = "required" => HeldBy(e.vtx) = {}
             /\ e.kind = "rest" => HeldBy(e.vtx) = {Array}
             /\ e.kind = "keyword_rest" => HeldBy(e.vtx) = {Hash}
             /\ e.kind = "optional" =>
                    /\ e.default.value.literal # None =>
                           e.default.value.literal.value \in HeldBy(e.vtx)
                    /\ Drained => HeldBy(e.default.value.vtx) \subseteq HeldBy(e.vtx)
    /\ Analysed(RestProgram) => LocalTypes("items") = {Array} /\ type_errors = <<>>

(* the drain is over for a definition whose optional parameters took the  *)
(* type of a method call and of a local, beside a rest and a keyword-rest *)
(* parameter                                                              *)
C21_Witness ==
    /\ Drained
    /\ \E i, j \in 1..Len(param_log) :
          /\ param_log[i].kind = "optional"
          /\ param_log[i].default.value.literal = None
          /\ HeldBy(param_log[i].vtx) = {String}
          /\ param_log[j].kind = "optional"
          /\ HeldBy(param_log[j].vtx) = {Integer}
    /\ \E i \in 1..Len(param_log) : param_log[i].kind = "rest"
    /\ \E i \in 1..Len(param_log) : param_log[i].kind = "keyword_rest"

(* the visits of one add_edge(src, dst) on the graph of the state *)
Visits(src, dst, ord) == add_edge_visits(Env, src, dst, ord).visits

(* C22: add_edge terminates on every graph, with cycles and self-loops:   *)
(* over the calls of on_type_added one add_edge makes, every pair of a    *)
(* vertex and a type is made new at most once, a call that made no type   *)
(* new propagates nothing, and the calls leave the graph add_edge leaves. *)
C22_PropagationStops ==
    \A src \in Allocated, dst \in Allocated, ord \in Orders :
        LET t == add_edge_visits(Env, src, dst, ord)
            g == add_edge(Env, src, dst, ord)
            n == Len(t.visits)
        IN /\ t.g.vertices = g.vertices
           /\ t.g.sources = g.sources
           /\ \A i \in 1..n : t.visits[i].added = {} => t.visits[i].props = 0
           /\ \A i \in 1..n : \A j \in 1..n :
                  (i # j /\ t.visits[i].vtx = t.visits[j].vtx)
                      => t.visits[i].added \cap t.visits[j].added = {}

(* a type went round the cycle a -> b -> a and came back to a from b, where *)
(* the call of on_type_added found nothing new and stopped                 *)
C22_Witness ==
    \E a \in DOMAIN vertices, b \in DOMAIN vertices :
        /\ a # b
        /\ b \in vertices[a].next_vtxs
        /\ a \in vertices[b].next_vtxs
        /\ \E ty \in DOMAIN vertices[a].types :
              /\ b \in vertices[a].types[ty]
              /\ ty \in DOMAIN vertices[b].types
              /\ \E i \in 1..Len(Visits(b, a, "asc")) :
                     Visits(b, a, "asc")[i].added = {}

(* the same on a self-loop a -> a *)
C22_SelfLoop ==
    \E a \in DOMAIN vertices :
        /\ a \in vertices[a].next_vtxs
        /\ \E ty \in DOMAIN vertices[a].types : a \in vertices[a].types[ty]

(* the method-call boxes whose receiver is a vertex without a type *)
EmptyReceiverCalls ==
    {id \in DOMAIN boxes :
        /\ boxes[id].kind = "MethodCall"
        /\ boxes[id].recv \in DOMAIN vertices
        /\ DOMAIN vertices[boxes[id].recv].types = {}}

(* what a run of such a box does, whichever state it is run in *)
C23_RunOnEmptyReceiver ==
    \A id \in EmptyReceiverCalls : \A ord \in Orders :
        LET bx == boxes[id]
            r == MethodCallBox_run(Env, bx, changes, ord)
        IN /\ bx.reschedule_count <= 3
           /\ r.env = Env
           /\ r.changes.new_edges = changes.new_edges
           /\ r.changes.edges = changes.edges
           /\ IF bx.reschedule_count < 3
              THEN /\ r.bx = [bx EXCEPT !.reschedule_count = bx.reschedule_count + 1]
                   /\ r.changes.reschedule_boxes = Append(changes.reschedule_boxes, id)
              ELSE /\ r.bx = bx
                   /\ r.changes = changes

(* a step that changes such a box is one of its first three runs *)
C23_RunStep ==
    \A id \in EmptyReceiverCalls :
        boxes'[id] # boxes[id] =>
            /\ boxes[id].reschedule_count < 3
            /\ boxes'[id] = [boxes[id] EXCEPT !.reschedule_count = @ + 1]
            /\ changes'.reschedule_boxes = Append(changes.reschedule_boxes, id)
            /\ changes'.new_edges = changes.new_edges
            /\ changes'.edges = changes.edges
            /\ vertices' = vertices
            /\ sources' = sources
            /\ next_vertex_id' = next_vertex_id
            /\ type_errors' = type_errors

(* C23: a method-call box whose receiver has no type asks for a reschedule *)
(* of itself on each of its first 3 such runs and increments its retry     *)
(* counter each time; on a further run it asks for nothing; none of these  *)
(* runs adds an edge, allocates a Source or records a diagnostic.          *)
C23_RescheduleAtMostThrice ==
    [](C23_RunOnEmptyReceiver) /\ [][C23_RunStep]_vars

(* a box was run three times on its empty receiver, and the three requests *)
(* are in the change-set                                                   *)
C23_Witness ==
    \E id \in EmptyReceiverCalls :
        /\ boxes[id].reschedule_count = 3
        /\ changes.reschedule_boxes = <<id, id, id>>
        /\ changes.new_edges = <<>>
        /\ type_errors = <<>>

(* the receiver types of a method-call box that resolve, and the return *)
(* types declared for them                                              *)
Resolving(bx) ==
    {ty \in HeldBy(bx.recv) : resolve_method(methods, ty, bx.method_name) # None}
DeclaredReturns(bx) ==
    {resolve_method(methods, ty, bx.method_name).value.return_type : ty \in Resolving(bx)}

(* the step of run_all that runs a method-call box on a receiver with types *)
MethodCallRuns(bx) ==
    /\ pc = "drain"
    /\ run_queue # <<>>
    /\ run_queue' = Tail(run_queue)
    /\ Head(run_queue) \in DOMAIN boxes
    /\ bx = boxes[Head(run_queue)]
    /\ bx.kind = "MethodCall"
    /\ HeldBy(bx.recv) # {}

C25_RunStep ==
    \A bx \in {boxes[id] : id \in DOMAIN boxes} :
        MethodCallRuns(bx) =>
            LET fresh == (DOMAIN sources') \ Allocated
                before == DOMAIN vertices[bx.ret].types
                after == DOMAIN vertices'[bx.ret].types
            IN /\ DeclaredReturns(bx) \subseteq after
               /\ after \ before \subseteq DeclaredReturns(bx)
               /\ Cardinality(fresh) = Cardinality(Resolving(bx))
               /\ \A rt \in DeclaredReturns(bx) :
                      \E id \in fresh : /\ sources'[id] = rt
                                        /\ id \in vertices'[bx.ret].types[rt]
               /\ \A id \in fresh : /\ sources'[id] \in DeclaredReturns(bx)
                                    /\ id \in vertices'[bx.ret].types[sources'[id]]
               /\ Resolving(bx) = {} => vertices' = vertices /\ sources' = sources

Applied(box_id) ==
    \A ord \in Orders :
        LET r == run(Env, boxes[box_id], ChangeSet_new, ord)
            g == apply_changes(r.env, r.changes, ord)
        IN /\ \A v \in DOMAIN vertices :
                  DOMAIN g.vertices[v].types = DOMAIN vertices[v].types
           /\ Range(g.type_errors) = Range(type_errors)

(* the method-call box has run in this drain on a receiver without a type   *)
(* (it counted the run), its receiver has a type by now, and its effect is  *)
(* not applied; a block-parameter box keeps no count of such runs           *)
LeftBehind(box_id) ==
    /\ pc = "drain"
    /\ box_id \in DOMAIN boxes
    /\ box_id \notin run_queue_set
    /\ boxes[box_id].kind = "MethodCall"
    /\ boxes[box_id].reschedule_count > 0
    /\ HeldBy(boxes[box_id].recv) # {}
    /\ ~Applied(box_id)

(* C24: a box whose receiver had no type when it first ran and gained its *)
(* first type later in the same drain is run again after that moment, so  *)
(* that its effect (return-type edge or diagnostic) is eventually applied *)
(* (stated for the method-call boxes, which count their runs on an empty  *)
(* receiver).                                                             *)
C24_RunAgain ==
    \A box_id \in 0..MaxSize : LeftBehind(box_id) ~> ~LeftBehind(box_id)

(* the queue holds no id twice, and the companion set holds its ids *)
QueueIsASet ==
    /\ \A i \in 1..Len(run_queue) : \A j \in 1..Len(run_queue) :
           i # j => run_queue[i] # run_queue[j]
    /\ run_queue_set = Range(run_queue)

(* base is what is left of the queue, and what follows it in the queue of *)
(* the next state are ids that base did not hold                          *)
Enqueued(base) ==
    /\ Len(run_queue') >= Len(base)
    /\ SubSeq(run_queue', 1, Len(base)) = base
    /\ \A i \in (Len(base) + 1)..Len(run_queue') : run_queue'[i] \notin Range(base)

(* a step leaves the queue in order: ids are added at the back, and the *)
(* one box that runs is the one taken from the front                    *)
QueueIsFifo ==
    \/ /\ Enqueued(run_queue)
       /\ \A id \in DOMAIN boxes : id \in DOMAIN boxes' /\ boxes'[id] = boxes[id]
    \/ /\ run_queue # <<>>
       /\ Enqueued(Tail(run_queue))
       /\ DOMAIN boxes' = DOMAIN boxes
       /\ \A id \in DOMAIN boxes : id # Head(run_queue) => boxes'[id] = boxes[id]

Runs == popped # None /\ ~popped.value.ran /\ popped' # None /\ popped'.value.ran
Reinserts ==
    /\ popped # None
    /\ popped.value.box_id \notin DOMAIN boxes
    /\ popped.value.box_id \in DOMAIN boxes'
Applies ==
    /\ popped # None
    /\ popped.value.changes # None
    /\ popped' = None \/ popped'.value.changes = None

(* the popped box is out of the table while it runs, and comes back as the *)
(* run left it, retry counter included                                     *)
RunsOutside ==
    /\ Runs => /\ popped.value.box_id \notin DOMAIN boxes
               /\ popped.value.box_id \notin DOMAIN boxes'
    /\ Reinserts => /\ popped.value.ran
                    /\ boxes'[popped.value.box_id] = popped.value.temp_box.value
    /\ \A id \in (DOMAIN boxes) \cap (DOMAIN boxes') :
           boxes'[id].reschedule_count >= boxes[id].reschedule_count

(* when the drain ends the table holds the ids registered before it *)
TableRestored ==
    (Drained /\ popped = None) => DOMAIN boxes = 0..(next_box_id - 1)

(* C27: during run_all each popped box is absent from the box table while *)
(* it runs, its change-set is applied, and then the box is reinserted;     *)
(* when the drain ends the box table holds exactly the ids registered      *)
(* before the drain, and each box has kept its retry counter.              *)
C27_AppliedThenReinserted ==
    /\ [](TableRestored)
    /\ [][/\ RunsOutside
          /\ Applies => popped.value.box_id \notin DOMAIN boxes
          /\ Reinserts => popped.value.changes = None]_vars

(* C27, with the order the iteration has: each popped box is absent from  *)
(* the box table while it runs and is reinserted as soon as the run has   *)
(* returned, and then its change-set is applied; when the drain ends the  *)
(* box table holds exactly the ids registered before the drain, and each  *)
(* box has kept its retry counter.                                        *)
C27_ReinsertedThenApplied ==
    /\ [](TableRestored)
    /\ [][/\ RunsOutside
          /\ Applies => popped.value.box_id \in DOMAIN boxes
          /\ Reinserts => popped.value.changes # None]_vars

(* a box that asked for a reschedule is back in the table with its retry *)
(* counter, while the change-set of another box, already back as well,   *)
(* still waits with an edge to be applied                                *)
C27_Witness ==
    /\ popped # None
    /\ popped.value.temp_box = None
    /\ popped.value.box_id \in DOMAIN boxes
    /\ popped.value.changes.value.new_edges # <<>>
    /\ \E id \in DOMAIN boxes : boxes[id].reschedule_count > 0

(* the pairs in ascending (src, dst) order, none twice *)
StrictlyAscending(es) ==
    \A i \in 1..(Len(es) - 1) :
        \/ es[i][1] < es[i + 1][1]
        \/ es[i][1] = es[i + 1][1] /\ es[i][2] < es[i + 1][2]

(* what reinstall returns for the change-set of the state *)
ReinstallIsExact ==
    LET r == reinstall(changes)
        pending == Range(changes.new_edges)
        baseline == Range(changes.edges)
        adds == SelectSeq(r.updates, LAMBDA u : u.kind = "Add")
        removes == SelectSeq(r.updates, LAMBDA u : u.kind = "Remove")
        Pairs(us) == [i \in 1..Len(us) |-> <<us[i].src, us[i].dst>>]
    IN /\ Range(Pairs(adds)) = pending \ baseline
       /\ Len(adds) = Cardinality(pending \ baseline)
       /\ StrictlyAscending(Pairs(adds))
       /\ Range(Pairs(removes)) = baseline \ pending
       /\ Len(removes) = Cardinality(baseline \ pending)
       /\ r.updates = adds \o removes
       /\ Range(r.cs.edges) = pending
       /\ Len(r.cs.edges) = Cardinality(pending)
       /\ r.cs.new_edges = <<>>

(* a commit leaves the pending edges as the baseline and no pending edge *)
CommitStep ==
    (changes.new_edges # <<>> /\ changes'.new_edges = <<>> /\ changes'.edges # <<>>)
        => Range(changes'.edges) = Range(changes.new_edges)

(* C28: reinstall returns, exactly once each, an Add for every distinct    *)
(* pending edge that is not in the baseline and a Remove for every         *)
(* baseline edge that is not pending, the Adds in ascending (src, dst)     *)
(* order; afterwards the baseline is the set of the pending edges and the  *)
(* pending list is empty.                                                  *)
C28_ReinstallUpdates == [](ReinstallIsExact) /\ [][CommitStep]_vars

(* after a commit, an edge is pending twice beside a baseline edge that is *)
(* not pending: reinstall has one Add and one Remove to return             *)
C28_Witness ==
    /\ Len(changes.edges) = 1
    /\ Len(changes.new_edges) = 2
    /\ changes.new_edges[1] = changes.new_edges[2]
    /\ changes.new_edges[1] # changes.edges[1]
    /\ Len(reinstall(changes).updates) = 2

(* the ids of both arenas *)
ArenaIds == (DOMAIN vertices) \cup (DOMAIN sources)

(* every allocated id is below the counter, and belongs to one arena *)
IdsAreUnique ==
    /\ \A id \in ArenaIds : id < next_vertex_id
    /\ (DOMAIN vertices) \cap (DOMAIN sources) = {}

(* the ids a step hands out are above all the ids handed out before, the *)
(* counter moves past them, and no id leaves its arena                   *)
IdsIncrease ==
    /\ next_vertex_id' >= next_vertex_id
    /\ DOMAIN vertices \subseteq DOMAIN vertices'
    /\ DOMAIN sources \subseteq DOMAIN sources'
    /\ ArenaIds' \ ArenaIds = next_vertex_id..(next_vertex_id' - 1)

(* C29: after any sequence of new_vertex and new_source calls every     *)
(* allocated id is smaller than the id counter, ids are handed out in   *)
(* strictly increasing order, and no id is a key of both the Vertex     *)
(* arena and the Source arena.                                          *)
C29_IdsMonotone == [](IdsAreUnique) /\ [][IdsIncrease]_vars

(* Sources and Vertices were allocated in turn, the last Source by the run *)
(* of a box                                                                *)
C29_Witness ==
    /\ pc = "drain"
    /\ \E s \in DOMAIN sources, v \in DOMAIN vertices, t \in DOMAIN sources :
          /\ s < v /\ v < t
          /\ \E ty \in DOMAIN vertices[v].types : s \in vertices[v].types[ty]

(* the block-parameter types declared for a method of the class of a *)
(* receiver type, None when there are none                           *)
DeclaredBlockParams(recv_ty, method_name) ==
    LET info == MethodRegistry_resolve(methods, recv_ty, method_name)
    IN IF info = None THEN None ELSE info.value.block_param_types

(* the type a position is to receive: the type argument of the receiver a *)
(* type variable stands for, the declared type when it is no type         *)
(* variable, None when the type variable cannot be substituted            *)
Substituted(param_type, recv_ty) ==
    IF param_type.tag = "Instance" /\ is_type_variable_name(param_type.name)
    THEN LET index ==
                 CASE param_type.name \in {"Elem", "T", "Element"} -> 0
                   [] recv_ty.name = "Hash" /\ param_type.name \in {"K", "Key"} -> 0
                   [] recv_ty.name = "Hash" /\ param_type.name \in {"V", "Value"} -> 1
                   [] OTHER -> -1
         IN IF recv_ty.tag = "Generic" /\ index >= 0 /\ index < Len(recv_ty.type_args)
            THEN Some(recv_ty.type_args[index + 1])
            ELSE None
    ELSE Some(param_type)

(* the types the block-parameter vertex vtx of a box is to receive *)
ToInject(bx, vtx) ==
    {t \in UNION {
         IF DeclaredBlockParams(ty, bx.method_name) = None THEN {}
         ELSE LET param_types == DeclaredBlockParams(ty, bx.method_name).value
              IN {Substituted(param_types[i], ty) :
                      i \in {j \in 1..Len(param_types) :
                                /\ j <= Len(bx.block_param_vtxs)
                                /\ bx.block_param_vtxs[j] = vtx}}
         : ty \in HeldBy(bx.recv)} : t # None}

(* the step of run_all that runs a block-parameter box *)
BlockParameterRuns(bx) ==
    /\ pc = "drain"
    /\ run_queue # <<>>
    /\ run_queue' = Tail(run_queue)
    /\ Head(run_queue) \in DOMAIN boxes
    /\ bx = boxes[Head(run_queue)]
    /\ bx.kind = "BlockParam"

(* C30: for each receiver type and each position that has both a declared *)
(* block-parameter type and a block-parameter vertex, the run of the      *)
(* block-parameter box injects the receiver's type argument 0 for Elem,   *)
(* T and Element, argument 0 for K and Key and argument 1 for V and Value *)
(* on Hash, the declared type itself when it is no type-variable name,    *)
(* and nothing when the type variable cannot be substituted; a skipped    *)
(* position does not stop the later ones.                                 *)
C30_BlockParametersInjected ==
    [][\A bx \in {boxes[id] : id \in DOMAIN boxes} :
          BlockParameterRuns(bx) =>
              \A vtx \in Range(bx.block_param_vtxs) :
                  LET injected == {t.value : t \in ToInject(bx, vtx)}
                      before == DOMAIN vertices[vtx].types
                      after == DOMAIN vertices'[vtx].types
                  IN /\ injected \subseteq after
                     /\ after \ before \subseteq injected]_vars

-----------------------------------------------------------------------------
(* C31: each local write binds the name to a freshly allocated vertex and   *)
(* leaves the vertex bound before untouched. In a step of the installer a   *)
(* name whose binding changes is bound to a vertex that was not allocated   *)
(* before the step, the vertex it was bound to keeps its types and edges,   *)
(* and every box installed before keeps its receiver. After                 *)
(* x = 1; y = x; w = x.to_s; x = "a"; z = x has been analysed, the receiver *)
(* of x.to_s is not the vertex x is bound to and holds Integer only, y      *)
(* holds Integer only, and x and z hold String only.                        *)
Rebound == {name \in DOMAIN lenv : name \in DOMAIN lenv' /\ lenv'[name] # lenv[name]}

RebindingIsFresh ==
    stmt_index' # stmt_index =>
        /\ DOMAIN lenv \subseteq DOMAIN lenv'
        /\ \A name \in Rebound :
              /\ lenv'[name] \notin Allocated
              /\ lenv'[name] \in DOMAIN vertices'
              /\ lenv[name] \in DOMAIN vertices =>
                     vertices'[lenv[name]] = vertices[lenv[name]]
        /\ \A id \in DOMAIN boxes : id \in DOMAIN boxes' /\ boxes'[id] = boxes[id]

FirstBindingKept ==
    Analysed(RebindProgram) =>
        /\ \A id \in DOMAIN boxes :
              /\ boxes[id].recv # lenv["x"]
              /\ HeldBy(boxes[id].recv) = {Integer}
        /\ LocalTypes("y") = {Integer}
        /\ LocalTypes("w") = {String}
        /\ LocalTypes("x") = {String}
        /\ LocalTypes("z") = {String}

C31_LocalWriteRebinds == [](FirstBindingKept) /\ [][RebindingIsFresh]_vars

C31_Witness ==
    /\ Analysed(RebindProgram)
    /\ \E id \in DOMAIN boxes :
          boxes[id].recv # lenv["x"] /\ HeldBy(boxes[id].recv) = {Integer}
    /\ LocalTypes("z") = {String}

-----------------------------------------------------------------------------
(* C32: an instance-variable write and an instance-variable read both     *)
(* resolve to the nearest enclosing frame that is a class or a module:    *)
(* the table of a frame holds only vertices written with that frame as    *)
(* the nearest class or module frame, the last vertex written under a     *)
(* frame is in that frame's table, and a read returns the entry of the    *)
(* nearest class or module frame of the reader (nothing when there is     *)
(* no such frame).                                                        *)
StoredInNearestFrame ==
    \A id \in DOMAIN scopes : \A name \in DOMAIN scopes[id].instance_vars :
        ivar_writer[scopes[id].instance_vars[name]].frame = Some(id)

LastWriteIsStored ==
    \A v \in DOMAIN ivar_writer :
        LET F == ivar_writer[v].frame
        IN (F # None /\ \A u \in DOMAIN ivar_writer : ivar_writer[u].frame = F => u <= v)
               => \E name \in IvarNames :
                      get_instance_var(scopes[F.value], name) = Some(v)

ReadFromNearestFrame ==
    last_read # None =>
        last_read.value.result =
            IF last_read.value.frame = None THEN None
            ELSE get_instance_var(scopes[last_read.value.frame.value],
                                  last_read.value.name)

C32_IvarNearestFrame ==
    StoredInNearestFrame /\ LastWriteIsStored /\ ReadFromNearestFrame

-----------------------------------------------------------------------------
(* C33: after the installer has walked the statements of a program, with   *)
(* any nesting of class, module, method and block definitions and with     *)
(* sub-expressions that yield no vertex, the current scope is the          *)
(* top-level frame again, every frame created is retrievable by its id     *)
(* with a parent created before it, and no step removes a frame or         *)
(* changes its kind or its parent. After                                   *)
(* module M; class A; def m; y = w.upcase; [1].each { |i| z = q }; @v = u  *)
(* has been walked the arena holds the five frames top level, M, A, m and  *)
(* the block, each the parent of the next.                                 *)
FrameKinds == {"TopLevel", "Class", "Module", "Method", "Block"}

FramesRetrievable ==
    /\ DOMAIN scopes = 0..(scope_next_id - 1)
    /\ scopes[0].kind.tag = "TopLevel" /\ scopes[0].parent = None
    /\ \A id \in 1..(scope_next_id - 1) :
          /\ scopes[id].kind.tag \in FrameKinds \ {"TopLevel"}
          /\ scopes[id].parent # None
          /\ scopes[id].parent.value \in 0..(id - 1)

FramesPersist ==
    \A id \in DOMAIN scopes :
        /\ id \in DOMAIN scopes'
        /\ scopes'[id].kind = scopes[id].kind
        /\ scopes'[id].parent = scopes[id].parent

NestedFrames ==
    /\ scope_next_id = 5
    /\ [id \in 1..4 |-> scopes[id].kind.tag] = <<"Module", "Class", "Method", "Block">>
    /\ \A id \in 1..4 : scopes[id].parent = Some(id - 1)

ScopesBalanced ==
    /\ current_scope = 0
    /\ FramesRetrievable
    /\ (program = NestedScopesProgram /\ stmt_index = 1) => NestedFrames

C33_ScopesBalanced == [](ScopesBalanced) /\ [][FramesPersist]_vars

C33_Witness ==
    /\ program = NestedScopesProgram
    /\ stmt_index = 1
    /\ current_scope = 0
    /\ NestedFrames
    /\ LocalTypes("y") = {} /\ "z" \notin DOMAIN lenv

-----------------------------------------------------------------------------
(* a type in which every union has at least two members, no member twice *)
(* and no union as a member                                               *)
RECURSIVE UnionsWellFormed(_)
UnionsWellFormed(t) ==
    /\ t.tag = "Union" =>
           /\ Len(t.type_args) >= 2
           /\ \A i, j \in 1..Len(t.type_args) : i # j => t.type_args[i] # t.type_args[j]
           /\ \A i \in 1..Len(t.type_args) : t.type_args[i].tag # "Union"
    /\ \A i \in 1..Len(t.type_args) : UnionsWellFormed(t.type_args[i])

(* the types the graph holds: the fixed types of the sources and the keys *)
(* of the type maps of the vertices                                       *)
GraphTypes ==
    {sources[id] : id \in DOMAIN sources}
        \cup UNION {DOMAIN vertices[id].types : id \in DOMAIN vertices}

(* C34: every Union the program constructs, as the element type of an    *)
(* array literal or by parsing a printed form such as bool | Integer or  *)
(* String | String, has at least two members, no member twice and no     *)
(* Union as a member.                                                     *)
C34_UnionsWellFormed ==
    /\ \A t \in GraphTypes : UnionsWellFormed(t)
    /\ (conv # None /\ conv.value.stage = "rbs_parsed") =>
           UnionsWellFormed(conv.value.value.type)

-----------------------------------------------------------------------------
(* C35: for every vertex v and every type t in v.types the provenance set *)
(* recorded for t is not empty and every id in it is the id of a Source   *)
(* whose fixed type is t, also when t reached v through a chain of        *)
(* vertices.                                                              *)
C35_ProvenanceIsSources ==
    \A v \in DOMAIN vertices : \A t \in DOMAIN vertices[v].types :
        /\ vertices[v].types[t] # {}
        /\ \A id \in vertices[v].types[t] : id \in DOMAIN sources /\ sources[id] = t

-----------------------------------------------------------------------------
(* the ids reachable from the ids of S along the edges E *)
RECURSIVE ReachableFrom(_, _)
ReachableFrom(S, E) ==
    LET N == S \cup {e[2] : e \in {d \in E : d[1] \in S}}
    IN IF N = S THEN S ELSE ReachableFrom(N, E)

SourcesOf(t) == {id \in DOMAIN sources : sources[id] = t}

(* C36: no type appears out of nothing: in every reachable state, for     *)
(* every vertex v and every type t in v.types there is a Source with      *)
(* fixed type t from which v is reachable along edges that have been      *)
(* added, so the types in the graph are a subset of the Source types.     *)
C36_TypesComeFromSources ==
    \A v \in DOMAIN vertices : \A t \in DOMAIN vertices[v].types :
        v \in ReachableFrom(SourcesOf(t), RecordedEdges \cup source_edges)

C36_Witness ==
    \E v \in DOMAIN vertices : \E t \in DOMAIN vertices[v].types :
        /\ SourcesOf(t) # {}
        /\ \A id \in SourcesOf(t) : <<id, v>> \notin source_edges
        /\ \E u \in DOMAIN vertices : u # v /\ <<u, v>> \in RecordedEdges

-----------------------------------------------------------------------------
(* the method-call boxes, and the sum of the values of a function *)
MethodCalls == {id \in DOMAIN boxes : boxes[id].kind = "MethodCall"}

RECURSIVE Sum(_)
Sum(f) ==
    IF DOMAIN f = {} THEN 0
    ELSE LET x == CHOOSE y \in DOMAIN f : TRUE
         IN f[x] + Sum([y \in (DOMAIN f) \ {x} |-> f[y]])

Missing(bx) == HeldBy(bx.recv) \ Resolving(bx)

(* the Sources the boxes allocated: those that feed a return vertex *)
ReturnSources ==
    {e[1] : e \in {d \in source_edges : \E id \in MethodCalls : boxes[id].ret = d[2]}}

(* a box has run at most 4 times in the drain, and all of its runs but at *)
(* most one found the receiver without a type and asked for a retry       *)
RunsBounded ==
    \A id \in MethodCalls :
        /\ boxes[id].reschedule_count <= MAX_RESCHEDULE_COUNT
        /\ RunCount(run_count, id) <= MAX_RESCHEDULE_COUNT + 1
        /\ RunCount(run_count, id) <= boxes[id].reschedule_count + 1

(* over the drain: at most one diagnostic and one return Source for each *)
(* box and receiver type                                                 *)
ResolvedOncePerType ==
    /\ Len(type_errors) <= Sum([id \in MethodCalls |-> Cardinality(Missing(boxes[id]))])
    /\ Cardinality(ReturnSources) <=
           Sum([id \in MethodCalls |-> Cardinality(Resolving(boxes[id]))])

(* the run that resolves is the first run of the box that finds a type, *)
(* and it records one diagnostic for each receiver type that misses and *)
(* allocates one Source for each that resolves                          *)
C37_RunStep ==
    \A bx \in {boxes[id] : id \in DOMAIN boxes} :
        MethodCallRuns(bx) =>
            LET recorded == SubSeq(type_errors', Len(type_errors) + 1, Len(type_errors'))
            IN /\ RunCount(run_count, bx.id) = bx.reschedule_count
               /\ Len(recorded) = Cardinality(Missing(bx))
               /\ {recorded[i].receiver_type : i \in 1..Len(recorded)} = Missing(bx)
               /\ \A i \in 1..Len(recorded) : recorded[i].method_name = bx.method_name
               /\ SubSeq(type_errors', 1, Len(type_errors)) = type_errors
               /\ Cardinality((DOMAIN sources') \ Allocated) = Cardinality(Resolving(bx))

-----------------------------------------------------------------------------
(* a method-call box the drain has dropped: it has run, the queue does not  *)
(* hold it, and its receiver has no type (types only accumulate, so every   *)
(* run of the box found the receiver without a type)                        *)
GivenUp(id) ==
    /\ pc = "drain"
    /\ id \in MethodCalls
    /\ RunCount(run_count, id) > 0
    /\ id \notin run_queue_set
    /\ HeldBy(boxes[id].recv) = {}

ReceiverStaysUntyped ==
    \A id \in DOMAIN boxes : GivenUp(id) => HeldBy(boxes[id].recv)' = {}

(* C38: on the graphs the installer produces three retries are never too   *)
(* few: once a method-call box has given up on a receiver without a type   *)
(* and left the queue, the receiver gains no type in the rest of the drain *)
(* (no receiver gains its first type after its box was dropped).           *)
C38_RetriesSuffice == [][ReceiverStaysUntyped]_vars

-----------------------------------------------------------------------------
(* the names a statement binds as the parameters of its own block or method *)
OwnParameters(node) ==
    IF node.node = "CallNode"
    THEN IF node.block = None THEN {}
         ELSE {node.block.value.parameters[k] :
                  k \in 1..Len(node.block.value.parameters)}
    ELSE IF node.node = "DefNode"
    THEN {node.requireds[k] : k \in 1..Len(node.requireds)}
         \cup {node.optionals[k].name : k \in 1..Len(node.optionals)}
         \cup (IF node.rest = None THEN {} ELSE {node.rest.value})
         \cup (IF node.keyword_rest = None THEN {} ELSE {node.keyword_rest.value})
    ELSE {}

(* the local names bound before the next statement that its parameters shadow *)
Shadowed ==
    IF stmt_index < Len(program.statements)
    THEN OwnParameters(program.statements[stmt_index + 1]) \cap DOMAIN lenv
    ELSE {}

ShadowedBindingRestored ==
    stmt_index' = stmt_index + 1 =>
        \A name \in Shadowed : get_var(lenv', name) = Some(lenv[name])

(* C39: a parameter binding does not outlive its block or method: once the *)
(* statement that holds the block or the method has been installed and its *)
(* scope exited, a read of a local name that one of its parameters         *)
(* shadowed resolves to the vertex bound to the name before the statement, *)
(* not to the vertex of the parameter.                                     *)
C39_ParameterBindingEnds == [][ShadowedBindingRestored]_vars

====
